---------------------------- MODULE Spec2Model ----------------------------
(***************************************************************************)
(* Model of the cube-generation orchestrator of xcube-multistore:          *)
(* MultiSourceDataStore._generate_cubes with its per-artifact state        *)
(* records (GeneratorState), the _safe_execute wrapper around the open,    *)
(* process and write stages, and the output store ("storage").             *)
(*                                                                         *)
(* Calls into the xcube data stores and the transform library are the      *)
(* environment: each call either returns, raises an Exception or is hit by *)
(* a KeyboardInterrupt; the model chooses the outcome nondeterministically.*)
(***************************************************************************)
EXTENDS Naturals, Integers, Sequences, FiniteSets, TLC

\* ------------------------------------------------------------------ bounds
\* number of artifacts declared in config["datasets"]
NumDatasets == 2

\* identifiers of the declared artifacts, in declaration order
DatasetNames == <<"ds1", "ds2", "ds3", "ds4">>

Indices == 1..NumDatasets
Ids == {DatasetNames[i] : i \in Indices}

\* position of an artifact in the declaration order
IndexOf(id) == CHOOSE i \in Indices : DatasetNames[i] = id

\* ------------------------------------------------------------ python values
\* None for GeneratorState.status
NoStatus == "None"
\* None for GeneratorState.message (messages are tuples of strings)
NoMessage == <<>>
\* None for GeneratorState.exception
NoException == [type |-> "None", val |-> "None"]

\* an xr.Dataset produced for artifact `identifier`
Dataset(identifier) == [type |-> "Dataset", val |-> identifier]
\* an Exception instance raised by the call `name`
ExceptionObj(name) == [type |-> "Exception", val |-> name]
\* a python str
Str(s) == [type |-> "str", val |-> s]

\* isinstance(ds, xr.Dataset)
IsDataset(v) == v.type = "Dataset"

KEYBOARD_INTERRUPT_MESSAGE == "Keyboard Interrupt caught! Exiting gracefully."

\* ------------------------------------------------------------ GeneratorStatus
GeneratorStatus == {"waiting", "started", "stopped", "failed"}

\* GeneratorState(identifier, status, message, exception)
GeneratorState(identifier, status, message, exception) ==
    [identifier |-> identifier, status |-> status,
     message |-> message, exception |-> exception]

\* mutation: the event is merged whatever its identifier
GeneratorStateUpdateAnyIdentifier(self, event) ==
    [self EXCEPT
       !.status = IF event.status # NoStatus THEN event.status ELSE @,
       !.message = IF event.message # NoMessage THEN event.message ELSE @,
       !.exception = IF event.exception # NoException
                     THEN event.exception ELSE @]

\* mutation: the status is overwritten even when the event carries none
GeneratorStateUpdateAlways(self, event) ==
    IF self.identifier = event.identifier
    THEN [self EXCEPT
            !.status = event.status,
            !.message = IF event.message # NoMessage THEN event.message ELSE @,
            !.exception = IF event.exception # NoException
                          THEN event.exception ELSE @]
    ELSE self

\* GeneratorState.update(event)
GeneratorStateUpdate(self, event) ==
    IF self.identifier = event.identifier
    THEN [self EXCEPT
            !.status = IF event.status # NoStatus THEN event.status ELSE @,
            !.message = IF event.message # NoMessage THEN event.message ELSE @,
            !.exception = IF event.exception # NoException
                          THEN event.exception ELSE @]
    ELSE self

\* every artifact starts as started
InitialStatesStarted ==
    [id \in Ids |-> GeneratorState(id, "started", NoMessage, NoException)]

\* multistore.py:73-78: self._states, one waiting record per artifact
InitialStates ==
    [id \in Ids |-> GeneratorState(id, "waiting", NoMessage, NoException)]

\* ------------------------------------------------------------ _safe_execute
\* what the wrapped function does: return a value, raise an Exception
\* instance, or be interrupted by a KeyboardInterrupt
CallKinds == {"return", "Exception", "KeyboardInterrupt"}

\* mutation: no `except KeyboardInterrupt` clause, the interrupt propagates
SafeExecuteNoInterruptClause(outcome) ==
    CASE outcome.kind = "return" -> [raised |-> FALSE, value |-> outcome.val]
      [] outcome.kind = "Exception" -> [raised |-> FALSE, value |-> outcome.val]
      [] OTHER -> [raised |-> TRUE, value |-> outcome.val]

\* the wrapper built by _safe_execute(), applied to one call of the wrapped
\* function: `raised` tells whether anything propagates to the caller,
\* `value` is what the caller receives
SafeExecute(outcome) ==
    CASE outcome.kind = "return" -> [raised |-> FALSE, value |-> outcome.val]
      [] outcome.kind = "Exception" -> [raised |-> FALSE, value |-> outcome.val]
      [] OTHER -> [raised |-> FALSE, value |-> Str(KEYBOARD_INTERRUPT_MESSAGE)]

\* --------------------------------------------------------------- output ids
FormatIds == {"zarr", "netcdf", "omitted"}

\* config.get("format_id", "zarr")
FormatIdOf(config) ==
    IF config.format_id = "omitted" THEN "zarr" ELSE config.format_id

\* mutation: the id is built with the zarr extension whatever the format
GetDataIdZarrOnly(config) == <<config.identifier, "zarr">>

\* _get_data_id(config): f"{identifier}.nc" or f"{identifier}.zarr"
GetDataId(config) ==
    IF FormatIdOf(config) = "netcdf"
    THEN <<config.identifier, "nc">>
    ELSE <<config.identifier, "zarr">>

\* constants.MAP_FORMAT_ID_FILE_EXT
MAP_FORMAT_ID_FILE_EXT == [f \in {"zarr", "netcdf"} |->
                             IF f = "netcdf" THEN "nc" ELSE "zarr"]

\* the name of the format is taken as the extension
WriteDataIdFormatName(config) == <<config.identifier, FormatIdOf(config)>>

\* f"{config['identifier']}.{MAP_FORMAT_ID_FILE_EXT[format_id]}"
WriteDataId(config) ==
    <<config.identifier, MAP_FORMAT_ID_FILE_EXT[FormatIdOf(config)]>>

\* ------------------------------------------------------------- data store
\* store.has_data(data_id)
HasData(store, data_id) == data_id \in store
\* store.delete_data(data_id)
DeleteData(store, data_id) == store \ {data_id}
\* store.write_data(ds, data_id, replace=True)
WriteData(store, data_id) == store \cup {data_id}

\* mutation: the cleanup after a failed write is left out
CleanupStoreOmitted(store, data_id) == store

\* `store.has_data(data_id) and store.delete_data(data_id)` when neither
\* call raises
CleanupStore(store, data_id) ==
    IF HasData(store, data_id) THEN DeleteData(store, data_id) ELSE store

\* ------------------------------------------------------------------- state
VARIABLES
    datasets,   \* config.datasets: declaration index -> artifact config
    storage,    \* data ids held by the output store
    states,     \* self._states: identifier -> GeneratorState
    pc,         \* position of the constructor in _generate_cubes
    idx,        \* index of the artifact the loop is at
    ds,         \* the local `ds` of the loop body
    events,     \* every event passed to _notify, in order
    calls,      \* every store / stage call made, in order, with its outcome
    statusSeq,  \* identifier -> statuses assigned to its record, in order
    lastCall,   \* last call through a _safe_execute wrapper and its result
    escaped,    \* the exception that left the constructor, if any
    data_stores,      \* config.data_stores: the declared store specs, in order
    sources,          \* declaration index -> source data ids of the artifact
    preload_datasets, \* config.preload_datasets: the PreloadSpecs, or None
    general,          \* config.general
    preload_map,      \* config.preload_map
    built,            \* the configuration as MultiSourceConfig built it
    registry,         \* names set as attributes of the class DataStores
    cache,            \* data ids held by the cache_store of the source store
    plog,             \* preload phase: every store call and report, in order
    pidx,             \* index of the PreloadSpec the preload loop is at
    grid_mappings,    \* config.grid_mappings: identifiers of the section, or None
    gm_registry,      \* names set as attributes of the class GridMappings
    display,          \* whether self._display has been created
    shown,            \* number of times the display table was printed
    logged,           \* the lines written to LOG by _notify, in order
    storage0,         \* the output store at the call of the constructor
    run,              \* number of the constructor call on this output store
    first,            \* statuses and output store at the end of the first run
    general_given,    \* the general section as given in the configuration
    notebook,         \* is_jupyter_notebook()
    applied,          \* the dask scheduler and GDAL settings put in force
    open_config,      \* _open_dataset: the sources of the artifact opened
    store_caps,       \* _open_dataset: what the source store offers
    open_pos,         \* _open_dataset: index of the source it is at
    dss,              \* _open_dataset: the datasets opened so far
    olog              \* _open_dataset: every call made, in order

\* the state of configuration, store setup and preload phase
setupVars == <<data_stores, sources, preload_datasets, general, preload_map,
               built, registry, cache, plog, pidx>>

\* the grid-mapping section and registry
gmVars == <<grid_mappings, gm_registry>>
\* what _notify shows or logs
viewVars == <<display, shown, logged>>
\* what is kept of earlier moments
histVars == <<storage0, run, first>>
\* the inputs of _general_setup
generalVars == <<general_given, notebook, applied>>
\* the state of one call of _open_dataset
openVars == <<open_config, store_caps, open_pos, dss, olog>>

vars == <<datasets, storage, states, pc, idx, ds, events, calls, statusSeq,
          lastCall, escaped, data_stores, sources, preload_datasets, general,
          preload_map, built, registry, cache, plog, pidx,
          grid_mappings, gm_registry, display, shown, logged, storage0, run, first,
          general_given, notebook, applied, open_config, store_caps, open_pos, dss, olog>>

Call(op, site, identifier, res) ==
    [op |-> op, site |-> site, id |-> identifier, res |-> res]

NoCall == [kind |-> "none", val |-> NoException,
           result |-> [raised |-> FALSE, value |-> NoException]]

\* ------------------------------------------------------------------ events
\* f"Dataset {identifier!r} already generated."
AlreadyGeneratedMessage(identifier) == <<"Dataset", identifier, "already generated.">>

\* mutation: the skip event is sent with the status of a started artifact
AlreadyGeneratedEventStarted(identifier) ==
    GeneratorState(identifier, "started",
                   AlreadyGeneratedMessage(identifier), NoException)

\* event of multistore.py:173-179
AlreadyGeneratedEvent(identifier) ==
    GeneratorState(identifier, "stopped",
                   AlreadyGeneratedMessage(identifier), NoException)

\* event of multistore.py:181-187
OpenEvent(identifier) ==
    GeneratorState(identifier, "started",
                   <<"Open dataset", identifier, ".">>, NoException)

\* event of multistore.py:190-195
ProcessingEvent(identifier) ==
    GeneratorState(identifier, NoStatus,
                   <<"Processing dataset", identifier, ".">>, NoException)

\* event of multistore.py:201-206
WriteEvent(identifier) ==
    GeneratorState(identifier, NoStatus,
                   <<"Write dataset", identifier, ".">>, NoException)

\* mutation: the final event carries the message but no status
FinishedEventNoStatus(identifier) ==
    GeneratorState(identifier, NoStatus,
                   <<"Dataset", identifier, "finished.">>, NoException)

\* event of multistore.py:212-218
FinishedEvent(identifier) ==
    GeneratorState(identifier, "stopped",
                   <<"Dataset", identifier, "finished.">>, NoException)

\* the failure is sent without the failed status
ErrorEventStarted(identifier, exception) ==
    GeneratorState(identifier, "started", NoMessage, exception)

\* mutation: the failed event is sent without the captured error
ErrorEventNoException(identifier, exception) ==
    GeneratorState(identifier, "failed", NoMessage, NoException)

\* event built by _notify_error(identifier, exception)
ErrorEvent(identifier, exception) ==
    GeneratorState(identifier, "failed", NoMessage, exception)

\* python truth value of what a record holds as exception: None and the
\* empty string are false
Truthy(v) == v.type # "None" /\ ~(v.type = "str" /\ v.val = "")

\* visualization.py:113-121: the Exception cell of the row of a record:
\* state.exception or "-"
ExceptionCell(state) == IF Truthy(state.exception) THEN state.exception ELSE Str("-")

\* mutation: a failure is logged like any other event
LogLineInfoOnly(event) ==
    [level |-> "info", text |-> event.message, arg |-> NoException]

\* multistore.py:106-109: the line _notify logs for an event; an error line
\* is the fixed text followed by the exception
LogLine(event) ==
    IF event.status = "failed"
    THEN [level |-> "error", text |-> <<"An error occurred:">>,
          arg |-> event.exception]
    ELSE [level |-> "info", text |-> event.message, arg |-> NoException]

\* mutation: the record is updated only when the event is logged
NotifyWithLoggedOnly(visualize, event) ==
    /\ states' = IF visualize THEN states
                 ELSE [states EXCEPT
                         ![event.identifier] = GeneratorStateUpdate(@, event)]
    /\ events' = Append(events, event)
    /\ statusSeq' = IF event.status # NoStatus /\ ~visualize
                    THEN [statusSeq EXCEPT ![event.identifier] =
                              Append(@, states'[event.identifier].status)]
                    ELSE statusSeq
    /\ IF visualize
       THEN shown' = shown + 1 /\ UNCHANGED logged
       ELSE logged' = Append(logged, LogLine(event)) /\ UNCHANGED shown

\* multistore.py:100-109: _notify(event) updates the record of
\* event.identifier, then renders the table again or logs one line
NotifyWith(visualize, event) ==
    /\ states' = [states EXCEPT
                    ![event.identifier] = GeneratorStateUpdate(@, event)]
    /\ events' = Append(events, event)
    /\ statusSeq' = IF event.status # NoStatus
                    THEN [statusSeq EXCEPT ![event.identifier] =
                              Append(@, states'[event.identifier].status)]
                    ELSE statusSeq
    /\ IF visualize
       THEN shown' = shown + 1 /\ UNCHANGED logged
       ELSE logged' = Append(logged, LogLine(event)) /\ UNCHANGED shown

\* _notify(event) under the visualize option of the run
Notify(event) == NotifyWith(general.visualize, event)

\* multistore.py:85-88: the display is created and shown once before the
\* first artifact is visited
StartDisplay ==
    IF pc' = "visit" /\ general.visualize
    THEN display' = "created" /\ shown' = shown + 1
    ELSE UNCHANGED <<display, shown>>

\* ----------------------------------------------------------------- strings
\* python str values that are searched or cut are tuples of characters
S_zip == <<"z", "i", "p">>
S_tar == <<"t", "a", "r">>

\* constants.COMPRESSED_FORMATS
COMPRESSED_FORMATS == <<S_zip, S_tar>>

\* s.startswith(p)
StartsWith(s, p) == Len(p) <= Len(s) /\ SubSeq(s, 1, Len(p)) = p
\* s.endswith(p)
EndsWith(s, p) == Len(p) <= Len(s) /\ SubSeq(s, Len(s) - Len(p) + 1, Len(s)) = p
\* sub in s
Contains(s, sub) ==
    \E k \in 1..(Len(s) + 1) :
        /\ k + Len(sub) - 1 <= Len(s)
        /\ SubSeq(s, k, k + Len(sub) - 1) = sub

\* s.replace(old, ""): every occurrence of old is removed, left to right
RECURSIVE Replace(_, _)
Replace(s, old) ==
    IF Len(s) = 0 THEN <<>>
    ELSE IF StartsWith(s, old)
         THEN Replace(SubSeq(s, Len(old) + 1, Len(s)), old)
         ELSE <<s[1]>> \o Replace(Tail(s), old)

\* the loop of _remove_compressed_extension from the k-th format on
RECURSIVE RemoveExtensionFrom(_, _)
RemoveExtensionFrom(data_id, k) ==
    IF k > Len(COMPRESSED_FORMATS) THEN data_id
    ELSE IF EndsWith(data_id, COMPRESSED_FORMATS[k])
         THEN Replace(data_id, <<".">> \o COMPRESSED_FORMATS[k])
         ELSE RemoveExtensionFrom(data_id, k + 1)

\* _remove_compressed_extension(data_id)
RemoveCompressedExtension(data_id) == RemoveExtensionFrom(data_id, 1)

\* ------------------------------------------------------------ configuration
\* identifier of the output store: constants.NAME_WRITE_STORE
NAME_WRITE_STORE == "storage"

\* largest number of PreloadSpecs in config["preload_datasets"]
MaxPreloadSpecs == 2

\* source data ids used by the artifacts
D_ax == <<"a", "/", "x">>
D_ay == <<"a", "/", "y">>
D_b == <<"b">>
\* archive ids listed in PreloadSpecs
A_a == <<"a", ".", "z", "i", "p">>
A_b == <<"b", ".", "z", "i", "p">>
A_c == <<"c", ".", "z", "i", "p">>
A_azz == <<"a", ".", "z", "i", "p", ".", "z", "i", "p">>

\* the sources of one artifact: a single data id, or the data ids of its
\* variables in their listed order
SourcesPool ==
    { [kind |-> "single", data_ids |-> <<D_b>>],
      [kind |-> "variables", data_ids |-> <<D_ax, D_ay>>] }

\* store_params of a store spec: not given, given without credentials, or
\* given with credentials that are a file path or the parsed file
StoreParams(given, credentials) == [given |-> given, credentials |-> credentials]
StoreSpec(identifier, store_id, store_params) ==
    [identifier |-> identifier, store_id |-> store_id,
     store_params |-> store_params]

\* the data_stores sections the model chooses from
DataStoresPool ==
    { << StoreSpec("storage", "memory", StoreParams(FALSE, "absent")),
         StoreSpec("src", "clms", StoreParams(TRUE, "path")) >>,
      << StoreSpec("src", "zenodo", StoreParams(TRUE, "absent")) >>,
      << StoreSpec("storage", "memory", StoreParams(TRUE, "absent")) >> }

\* preload_params of a PreloadSpec: not given, or given with `silent`
\* absent or False
PreloadParams(given, silent) == [given |-> given, silent |-> silent]
PreloadParamsPool ==
    { PreloadParams(FALSE, "absent"), PreloadParams(TRUE, "absent"),
      PreloadParams(TRUE, "False") }

PreloadSpecPool ==
    { [store |-> "src", data_ids |-> ids, preload_params |-> pp] :
        ids \in { <<A_a, A_b, A_c>>, <<A_azz>> }, pp \in PreloadParamsPool }

\* config.get("preload_datasets", None): `given` is FALSE for None
NoPreload == [given |-> FALSE, specs |-> <<>>]
PreloadDatasetsPool ==
    {NoPreload} \cup
    { [given |-> TRUE, specs |-> q] :
        q \in UNION { [1..k -> PreloadSpecPool] : k \in 1..MaxPreloadSpecs } }

\* -------------------------------------------------------------- preload map
\* defaultdict(list)
EmptyMap == [x \in {} |-> <<>>]
\* reading an entry without touching the map
MapGet(pm, k) == IF k \in DOMAIN pm THEN pm[k] ELSE <<>>
\* preload_map[k].append(v)
MapAppend(pm, k, v) ==
    [x \in DOMAIN pm \cup {k} |-> IF x = k THEN MapGet(pm, k) \o <<v>> ELSE pm[x]]
\* preload_map[k] on a defaultdict: a missing key is inserted with []
MapTouch(pm, k) ==
    [x \in DOMAIN pm \cup {k} |-> IF x \in DOMAIN pm THEN pm[x] ELSE <<>>]

\* the data ids of all artifacts and their variables, in declaration order
RECURSIVE SourcesFrom(_, _)
SourcesFrom(srcs, i) ==
    IF i > NumDatasets THEN <<>>
    ELSE srcs[i].data_ids \o SourcesFrom(srcs, i + 1)
AllSources(srcs) == SourcesFrom(srcs, 1)

\* the archive ids of all PreloadSpecs, in the order the loops visit them
RECURSIVE ArchivesFrom(_, _)
ArchivesFrom(specs, i) ==
    IF i > Len(specs) THEN <<>>
    ELSE specs[i].data_ids \o ArchivesFrom(specs, i + 1)
AllArchives(specs) == ArchivesFrom(specs, 1)

\* config.py:326-333: the loop over the artifacts for one archive id
RECURSIVE AppendMatches(_, _, _, _)
AppendMatches(pm, archive, flat, k) ==
    IF k > Len(flat) THEN pm
    ELSE AppendMatches(
             IF Contains(flat[k], RemoveCompressedExtension(archive))
             THEN MapAppend(pm, archive, flat[k]) ELSE pm,
             archive, flat, k + 1)

\* config.py:323-325: the loops over the PreloadSpecs and their archive ids
RECURSIVE MapArchives(_, _, _, _)
MapArchives(pm, archives, flat, k) ==
    IF k > Len(archives) THEN pm
    ELSE MapArchives(AppendMatches(pm, archives[k], flat, 1), archives, flat, k + 1)

\* MultiSourceConfig._get_preload_map(); the map built for None is empty
GetPreloadMap(pd, srcs) ==
    IF ~pd.given THEN EmptyMap
    ELSE MapArchives(EmptyMap, AllArchives(pd.specs), AllSources(srcs), 1)

\* the configuration as it stands: what MultiSourceConfig holds
ConfigNow ==
    [data_stores |-> data_stores, sources |-> sources,
     preload_datasets |-> preload_datasets, preload_map |-> preload_map]

\* ---------------------------------------------------------- general section
\* an option that is not given, and one given with value v
Absent == <<>>
Given(v) == <<v>>

\* config.py:294-295
GDAL_HTTP_MAX_RETRY_DEFAULT == 10
GDAL_HTTP_RETRY_DELAY_DEFAULT == 5

\* a general section: each option absent or given
GeneralSection(visualize, force_preload, dask_scheduler, gdal_http_params) ==
    [visualize |-> visualize, force_preload |-> force_preload,
     dask_scheduler |-> dask_scheduler, gdal_http_params |-> gdal_http_params]
GdalHttpParams(max_retry, retry_delay) ==
    [gdal_http_max_retry |-> max_retry, gdal_http_retry_delay |-> retry_delay]

\* config.general before MultiSourceConfig has filled it
GeneralUnset ==
    [visualize |-> FALSE, force_preload |-> FALSE, dask_scheduler |-> "unset",
     gdal_http_params |-> GdalHttpParams(0, 0)]
\* nothing put in force yet
NothingApplied ==
    [scheduler |-> "unset", GDAL_HTTP_MAX_RETRY |-> Str(0),
     GDAL_HTTP_RETRY_DELAY |-> Str(0)]

\* config.py:288-289: True if is_jupyter_notebook() else False
VisualizeDefault(jupyter) == jupyter

\* config.py:296-308: a given gdal_http_params replaced by the defaults
GdalHttpSetupOverwriting(given) ==
    GdalHttpParams(GDAL_HTTP_MAX_RETRY_DEFAULT, GDAL_HTTP_RETRY_DELAY_DEFAULT)

\* config.py:296-308: gdal_http_params with the missing keys defaulted
GdalHttpSetup(given) ==
    LET g == IF given = Absent
             THEN GdalHttpParams(Given(GDAL_HTTP_MAX_RETRY_DEFAULT),
                                 Given(GDAL_HTTP_RETRY_DELAY_DEFAULT))
             ELSE given[1]
    IN GdalHttpParams(
           IF g.gdal_http_max_retry = Absent
           THEN GDAL_HTTP_MAX_RETRY_DEFAULT ELSE g.gdal_http_max_retry[1],
           IF g.gdal_http_retry_delay = Absent
           THEN GDAL_HTTP_RETRY_DELAY_DEFAULT ELSE g.gdal_http_retry_delay[1])

\* config.py:287-308: MultiSourceConfig._general_setup, the options
GeneralSetup(given, jupyter) ==
    [visualize |-> IF given.visualize = Absent
                   THEN VisualizeDefault(jupyter) ELSE given.visualize[1],
     force_preload |-> IF given.force_preload = Absent
                       THEN FALSE ELSE given.force_preload[1],
     dask_scheduler |-> IF given.dask_scheduler = Absent
                        THEN "threads" ELSE given.dask_scheduler[1],
     gdal_http_params |-> GdalHttpSetup(given.gdal_http_params)]

\* config.py:310-317: what _general_setup puts in force
Applied(g) ==
    [scheduler |-> g.dask_scheduler,
     GDAL_HTTP_MAX_RETRY |-> Str(g.gdal_http_params.gdal_http_max_retry),
     GDAL_HTTP_RETRY_DELAY |-> Str(g.gdal_http_params.gdal_http_retry_delay)]

\* the general sections of the runs that start at the preload phase
GeneralPool ==
    { GeneralSection(Given(v), f, Absent, Absent) :
        v \in BOOLEAN, f \in {Absent, Given(TRUE)} }

\* every general section up to the values of the options
GeneralSections ==
    { GeneralSection(v, f, d, g) :
        v \in {Absent, Given(TRUE), Given(FALSE)},
        f \in {Absent, Given(TRUE), Given(FALSE)},
        d \in {Absent, Given("single-threaded")},
        g \in {Absent} \cup
              { Given(GdalHttpParams(m, r)) :
                  m \in {Absent, Given(20)}, r \in {Absent, Given(2)} } }

\* ------------------------------------------------------------ default parts
\* no grid_mappings section
NoGridMappings == [given |-> FALSE, ids |-> {}]
\* no earlier run
NoFirst == [status |-> [id \in {} |-> "waiting"], storage |-> {}]
\* a source store with neither spatial open parameters nor cache_store
NoCaps == [bbox |-> FALSE, spatial_res |-> FALSE, cache_store |-> FALSE]

GridDefaults == grid_mappings = NoGridMappings /\ gm_registry = {}
ViewDefaults == display = "unset" /\ shown = 0 /\ logged = <<>>
HistDefaults == storage0 = storage /\ run = 1 /\ first = NoFirst
OpenDefaults ==
    /\ open_config = <<>>
    /\ store_caps = NoCaps
    /\ open_pos = 0
    /\ dss = <<>>
    /\ olog = <<>>

\* setup state of a run without PreloadSpecs whose stores are all opened,
\* with the visualize option as given
SetupDoneWith(visualize) ==
    /\ data_stores = << StoreSpec("storage", "memory", StoreParams(TRUE, "absent")),
                        StoreSpec("src", "zenodo", StoreParams(TRUE, "absent")) >>
    /\ sources = [i \in Indices |-> [kind |-> "single", data_ids |-> <<D_b>>]]
    /\ preload_datasets = NoPreload
    /\ general_given = GeneralSection(Given(visualize), Absent, Absent, Absent)
    /\ notebook = FALSE
    /\ general = GeneralSetup(general_given, notebook)
    /\ applied = Applied(general)
    /\ preload_map = EmptyMap
    /\ built = [data_stores |-> data_stores, sources |-> sources,
                preload_datasets |-> preload_datasets, preload_map |-> preload_map]
    /\ registry = {"storage", "src"}
    /\ cache = {}
    /\ plog = <<>>
    /\ pidx = 1

\* setup state of a run that logs instead of showing the table
SetupDone == SetupDoneWith(FALSE)

\* ------------------------------------------------------------------- Init
\* multistore.py:73-78 and 169-170: every artifact waits, the loop is at the
\* first artifact
LoopStart ==
    /\ states = InitialStates
    /\ pc = "visit"
    /\ idx = 1
    /\ ds = NoException
    /\ events = <<>>
    /\ calls = <<>>
    /\ statusSeq = [id \in Ids |-> <<"waiting">>]
    /\ lastCall = NoCall
    /\ escaped = NoException

Init ==
    /\ datasets \in [Indices -> {[identifier |-> DatasetNames[i], format_id |-> f,
                                    grid_mapping |-> "omitted"]
                                   : i \in Indices, f \in FormatIds}]
    /\ \A i \in Indices : datasets[i].identifier = DatasetNames[i]
    /\ storage \in SUBSET {GetDataId(datasets[i]) : i \in Indices}
    /\ LoopStart
    /\ SetupDone
    /\ GridDefaults
    /\ ViewDefaults
    /\ HistDefaults
    /\ OpenDefaults

\* runs with the table shown and runs that log instead
InitView ==
    /\ datasets \in [Indices -> {[identifier |-> DatasetNames[i], format_id |-> f,
                                    grid_mapping |-> "omitted"]
                                   : i \in Indices, f \in FormatIds}]
    /\ \A i \in Indices : datasets[i].identifier = DatasetNames[i]
    /\ storage \in SUBSET {GetDataId(datasets[i]) : i \in Indices}
    /\ LoopStart
    /\ \E visualize \in BOOLEAN :
          /\ SetupDoneWith(visualize)
          /\ display = IF visualize THEN "created" ELSE "unset"
          /\ shown = IF visualize THEN 1 ELSE 0
    /\ logged = <<>>
    /\ GridDefaults
    /\ HistDefaults
    /\ OpenDefaults

\* names a grid_mapping field can hold: none, the configured grid mapping,
\* a declared artifact, a name nothing carries
GridMappingRefs == {"omitted", "gm1", "nowhere"} \cup Ids

\* the grid_mappings section: absent, one grid mapping named gm1, or one
\* that has the identifier of the first artifact
GridMappingsPool ==
    { NoGridMappings, [given |-> TRUE, ids |-> {"gm1"}],
      [given |-> TRUE, ids |-> {DatasetNames[1]}] }

\* runs whose artifacts name grid mappings
InitGrid ==
    /\ datasets \in [Indices -> {[identifier |-> DatasetNames[i], format_id |-> "zarr",
                                    grid_mapping |-> g]
                                   : i \in Indices, g \in GridMappingRefs}]
    /\ \A i \in Indices : datasets[i].identifier = DatasetNames[i]
    /\ storage \in SUBSET {GetDataId(datasets[i]) : i \in Indices}
    /\ LoopStart
    /\ SetupDone
    /\ grid_mappings \in GridMappingsPool
    /\ gm_registry = IF grid_mappings.given THEN grid_mappings.ids ELSE {}
    /\ ViewDefaults
    /\ HistDefaults
    /\ OpenDefaults

\* the artifact the loop would be at if it walked the datasets backwards
CurrentReversed == datasets[NumDatasets + 1 - idx]

\* the artifact the loop is at
Current == datasets[idx]
CurrentId == Current.identifier

\* `continue` / end of the loop body: go to the next artifact or return
NextDataset ==
    /\ idx' = idx + 1
    /\ pc' = IF idx + 1 > NumDatasets THEN "done" ELSE "visit"

\* an exception leaves _generate_cubes and the constructor
Escape(exception) ==
    /\ pc' = "raised"
    /\ escaped' = exception
    /\ UNCHANGED <<idx, states, events, statusSeq, shown, logged>>

\* the exception object a failing call raises
RaisedBy(kind, name) ==
    IF kind = "Exception" THEN ExceptionObj(name) ELSE Str("KeyboardInterrupt")

\* outcome of a call of a wrapped stage function for the current artifact
StageOutcome(kind, name) ==
    [kind |-> kind,
     val |-> IF kind = "return" THEN Dataset(CurrentId) ELSE RaisedBy(kind, name)]

\* multistore.py:171-187: the skip check and the `started` event
SkipCheck ==
    /\ pc = "visit"
    /\ \E kind \in CallKinds :
         IF kind # "return"
         THEN /\ calls' = Append(calls, Call("has_data", "skip", CurrentId, kind))
              /\ Escape(RaisedBy(kind, "has_data"))
              /\ UNCHANGED <<ds>>
         ELSE IF HasData(storage, GetDataId(Current))
              THEN /\ calls' = Append(calls, Call("has_data", "skip", CurrentId, "True"))
                   /\ Notify(AlreadyGeneratedEvent(CurrentId))
                   /\ NextDataset
                   /\ UNCHANGED <<ds, escaped>>
              ELSE /\ calls' = Append(calls, Call("has_data", "skip", CurrentId, "False"))
                   /\ Notify(OpenEvent(CurrentId))
                   /\ pc' = "open"
                   /\ UNCHANGED <<idx, ds, escaped>>
    /\ UNCHANGED <<datasets, storage, lastCall>>
    /\ UNCHANGED setupVars
    /\ UNCHANGED <<gmVars, display, histVars, generalVars, openVars>>

\* what follows a wrapped stage call: result is the wrapper's answer, event
\* the message sent when it is a dataset, next the position after it
AfterStage(result, event, next) ==
    IF result.raised
    THEN /\ Escape(result.value)
         /\ UNCHANGED ds
    ELSE /\ ds' = result.value
         /\ UNCHANGED escaped
         /\ IF IsDataset(result.value)
            THEN /\ Notify(event)
                 /\ pc' = next
                 /\ UNCHANGED idx
            ELSE /\ Notify(ErrorEvent(CurrentId, result.value))
                 /\ NextDataset

\* multistore.py:188-198: ds = self._open_dataset(config_ds)
OpenDataset ==
    /\ pc = "open"
    /\ \E kind \in CallKinds :
         LET outcome == StageOutcome(kind, "open")
             result == SafeExecute(outcome)
         IN /\ calls' = Append(calls, Call("open", "stage", CurrentId, kind))
            /\ lastCall' = [kind |-> kind, val |-> outcome.val, result |-> result]
            /\ AfterStage(result, ProcessingEvent(CurrentId), "process")
    /\ UNCHANGED <<datasets, storage>>
    /\ UNCHANGED setupVars
    /\ UNCHANGED <<gmVars, display, histVars, generalVars, openVars>>

\* ------------------------------------------------------- the open stage
\* a source of an artifact: the store it names, its name, whether it has
\* custom_processing, and the point and spatial_res of its open_params,
\* each absent or given
SourceAt(store, name, custom, point, spatial_res) ==
    [store |-> store, name |-> name, custom |-> custom, point |-> point,
     spatial_res |-> spatial_res]
\* a source in the declared store `src`
Source(name, custom, point, spatial_res) ==
    SourceAt("src", name, custom, point, spatial_res)

\* an artifact with one source and no open_params
PlainArtifact ==
    [kind |-> "single", srcs |-> <<Source("a", FALSE, Absent, Absent)>>]

\* the artifacts whose open stage is followed source by source: a single
\* source with or without point and spatial_res, or two variables
OpenConfigPool ==
    { [kind |-> "single", srcs |-> <<Source("a", c, q[1], q[2])>>] :
        c \in BOOLEAN,
        q \in { <<Absent, Absent>>, <<Given(<<2, 3>>), Absent>>,
                <<Given(<<2, 3>>), Given(1)>> } }
    \cup
    { [kind |-> "variables",
       srcs |-> <<Source("a", c1, Absent, Absent), Source("b", c2, Absent, Absent)>>] :
        c1 \in BOOLEAN, c2 \in BOOLEAN }
    \cup
    \* a source that names the store `gone`, which data_stores does not have
    { [kind |-> "single", srcs |-> <<SourceAt("gone", "a", FALSE, Absent, Absent)>>],
      [kind |-> "variables",
       srcs |-> <<SourceAt("gone", "a", FALSE, Absent, Absent),
                  Source("b", FALSE, Absent, Absent)>>],
      [kind |-> "variables",
       srcs |-> <<Source("a", FALSE, Absent, Absent),
                  SourceAt("gone", "b", FALSE, Absent, Absent)>>] }

\* what the source store offers: `bbox` and `spatial_res` in the schema of
\* its open parameters, and a cache_store attribute
CapsPool ==
    { NoCaps,
      [bbox |-> TRUE, spatial_res |-> TRUE, cache_store |-> FALSE],
      [bbox |-> TRUE, spatial_res |-> FALSE, cache_store |-> FALSE],
      [bbox |-> FALSE, spatial_res |-> FALSE, cache_store |-> TRUE] }

\* the configuration of the artifact at position i: the first artifact is
\* the one under study
SourcesOf(i) == IF i = 1 THEN open_config ELSE PlainArtifact

\* one call made by _open_dataset: id is the artifact, src the position of
\* the source, params the open parameters passed, arg the dataset passed
Entry(op, on, id, src, params, arg, res) ==
    [op |-> op, on |-> on, id |-> id, src |-> src, params |-> params,
     arg |-> arg, res |-> res]

NoParams == [point |-> Absent, bbox |-> Absent, spatial_res |-> Absent]

\* multistore.py:257-258: the copy of open_params after pop("point", ...)
PoppedParams(src) ==
    [point |-> Absent, bbox |-> Absent, spatial_res |-> src.spatial_res]

\* multistore.py:260-266: with a point given and `bbox` in the schema the
\* test reaches `["spatial_res"] in open_params`, a list looked up in a
\* dict, which raises TypeError
ListLookupRaises(src, caps) == src.point # Absent /\ caps.bbox

\* every store name resolves
StoreDeclaredAlways(src) == TRUE

\* multistore.py:256: getattr(self.stores, config["store"]) finds the
\* attribute of the class DataStores
StoreDeclared(src) == src.store \in registry

\* mutation: custom_processing of a source is ignored
CustomProcessingNever(src) == FALSE

\* multistore.py:284: "custom_processing" in config
CustomProcessing(src) == src.custom

\* a bare except: the store is opened whatever the cache open raised
StoreOpenedOnAnyFailure(caps, kc) == ~caps.cache_store \/ kc # "return"

\* multistore.py:275-281: whether store.open_data is called: without a
\* cache_store, or when cache_store.open_data raised an Exception that
\* `except Exception` catches
StoreOpened(caps, kc) == ~caps.cache_store \/ kc = "Exception"

\* multistore.py:255-289 and 236-246: one call of _open_single_dataset for
\* the source at position k, followed by the renaming of its variables when
\* the artifact has several; kc, ks and kf are what the open of the cache
\* store, the open of the store and the custom function do
SingleOutcome(id, k, src, caps, several, kc, ks, kf) ==
    LET params == PoppedParams(src)
        cacheEntry == Entry("open_data", "cache_store", id, k, params, <<>>, kc)
        storeEntry == Entry("open_data", "store", id, k, params, <<>>, ks)
        opened == IF StoreOpened(caps, kc) THEN ks ELSE kc
        openEntries == (IF caps.cache_store THEN <<cacheEntry>> ELSE <<>>) \o
                       (IF StoreOpened(caps, kc) THEN <<storeEntry>> ELSE <<>>)
        customEntry == Entry("custom", "function", id, k, NoParams, <<src.name>>, kf)
        renamed == IF several THEN <<"rename">> ELSE <<>>
        lookup == Entry("getattr", "stores", id, k, NoParams, <<>>,
                        IF StoreDeclared(src) THEN "return" ELSE "Exception")
    IN IF ~StoreDeclared(src)
       THEN [ok |-> FALSE, entries |-> <<lookup>>, trace |-> <<>>,
             kind |-> "Exception", val |-> ExceptionObj("AttributeError")]
       ELSE IF ListLookupRaises(src, caps)
       THEN [ok |-> FALSE, entries |-> <<lookup>>, trace |-> <<>>,
             kind |-> "Exception", val |-> ExceptionObj("TypeError")]
       ELSE IF opened # "return"
       THEN [ok |-> FALSE, entries |-> <<lookup>> \o openEntries, trace |-> <<>>,
             kind |-> opened, val |-> RaisedBy(opened, "open_data")]
       ELSE IF ~CustomProcessing(src)
       THEN [ok |-> TRUE, entries |-> <<lookup>> \o openEntries,
             trace |-> <<src.name, "clean">> \o renamed,
             kind |-> "return", val |-> NoException]
       ELSE IF kf = "return"
       THEN [ok |-> TRUE, entries |-> <<lookup>> \o openEntries \o <<customEntry>>,
             trace |-> <<src.name, "custom", "clean">> \o renamed,
             kind |-> "return", val |-> NoException]
       ELSE [ok |-> FALSE, entries |-> <<lookup>> \o openEntries \o <<customEntry>>,
             trace |-> <<>>, kind |-> kf, val |-> RaisedBy(kf, "custom")]

\* the datasets opened so far, one after the other
RECURSIVE Flatten(_)
Flatten(traces) ==
    IF traces = <<>> THEN <<>> ELSE Head(traces) \o Flatten(Tail(traces))

\* the failure of a source is passed over and the next source is opened
OpenFailsGoesOn(kind, val) ==
    /\ open_pos' = open_pos + 1
    /\ dss' = Append(dss, <<>>)
    /\ UNCHANGED <<states, pc, idx, ds, events, calls, statusSeq, lastCall,
                   escaped, shown, logged>>

\* multistore.py:228-253: _open_dataset fails: the wrapper hands the error to
\* the loop, which reports it and goes to the next artifact
OpenFails(kind, val) ==
    LET result == SafeExecute([kind |-> kind, val |-> val])
    IN /\ calls' = Append(calls, Call("open", "stage", CurrentId, kind))
       /\ lastCall' = [kind |-> kind, val |-> val, result |-> result]
       /\ AfterStage(result, ProcessingEvent(CurrentId), "process")
       /\ open_pos' = 0
       /\ dss' = <<>>

\* multistore.py:228-253: _open_dataset returns a dataset built as `trace`
OpenReturns(trace) ==
    LET outcome == StageOutcome("return", "open")
        result == SafeExecute(outcome)
    IN /\ calls' = Append(calls, Call("open", "stage", CurrentId, "return"))
       /\ lastCall' = [kind |-> "return", val |-> outcome.val, result |-> result]
       /\ AfterStage(result, ProcessingEvent(CurrentId), "process")
       /\ open_pos' = 0
       /\ dss' = <<>>

\* multistore.py:231 and 234-246: the next source of the artifact is opened
OpenSource ==
    /\ pc = "open"
    /\ open_pos < Len(SourcesOf(idx).srcs)
    /\ \E kc \in CallKinds, ks \in CallKinds, kf \in CallKinds :
         LET k == open_pos + 1
             outcome == SingleOutcome(CurrentId, k, SourcesOf(idx).srcs[k], store_caps,
                                      SourcesOf(idx).kind = "variables", kc, ks, kf)
         IN /\ olog' = olog \o outcome.entries
            /\ IF outcome.ok
               THEN /\ dss' = Append(dss, outcome.trace)
                    /\ open_pos' = k
                    /\ UNCHANGED <<states, pc, idx, ds, events, calls, statusSeq,
                                   lastCall, escaped, shown, logged>>
               ELSE OpenFails(outcome.kind, outcome.val)
    /\ UNCHANGED <<datasets, storage, open_config, store_caps>>
    /\ UNCHANGED setupVars
    /\ UNCHANGED <<gmVars, display, histVars, generalVars>>

\* multistore.py:231 and 247-253: every source is opened: a single source is
\* returned as it is, several are merged and cleaned
OpenFinish ==
    /\ pc = "open"
    /\ open_pos = Len(SourcesOf(idx).srcs)
    /\ IF SourcesOf(idx).kind = "single"
       THEN /\ olog' = Append(olog, Entry("return", "_open_dataset", CurrentId, 0,
                                          NoParams, dss[1], "return"))
            /\ OpenReturns(dss[1])
       ELSE \E kind \in CallKinds :
              LET merge == Entry("merge", "xarray", CurrentId, 0, NoParams,
                                 Flatten(dss), kind)
                  merged == Flatten(dss) \o <<"merge", "clean">>
              IN IF kind = "return"
                 THEN /\ olog' = olog \o
                           <<merge, Entry("return", "_open_dataset", CurrentId, 0,
                                          NoParams, merged, "return")>>
                      /\ OpenReturns(merged)
                 ELSE /\ olog' = Append(olog, merge)
                      /\ OpenFails(kind, RaisedBy(kind, "merge"))
    /\ UNCHANGED <<datasets, storage, open_config, store_caps>>
    /\ UNCHANGED setupVars
    /\ UNCHANGED <<gmVars, display, histVars, generalVars>>

\* ------------------------------------------------------------ grid mapping
\* hasattr(self._grid_mappings, name): self._grid_mappings is the class
\* GridMappings when the section is given and not empty, else None
HasGridMapping(name) ==
    /\ grid_mappings.given
    /\ grid_mappings.ids # {}
    /\ name \in gm_registry

\* the declared artifacts are looked up before the grid mappings
GridMappingKindArtifactFirst(config) ==
    IF config.grid_mapping = "omitted" THEN "none"
    ELSE IF config.grid_mapping \in Ids THEN "dataset"
    ELSE IF HasGridMapping(config.grid_mapping) THEN "registry"
    ELSE "unknown"

\* mutation: a name that is not found counts as no grid mapping
GridMappingKindSkipUnknown(config) ==
    IF config.grid_mapping = "omitted" THEN "none"
    ELSE IF HasGridMapping(config.grid_mapping) THEN "registry"
    ELSE IF config.grid_mapping \in Ids THEN "dataset"
    ELSE "none"

\* mutation: the grid of a named artifact is taken without opening its
\* output
GridMappingKindNoReference(config) ==
    IF config.grid_mapping = "omitted" THEN "none"
    ELSE IF HasGridMapping(config.grid_mapping) THEN "registry"
    ELSE IF config.grid_mapping \in Ids THEN "registry"
    ELSE "unknown"

\* multistore.py:294-298: where _process_dataset takes the target grid from
GridMappingKind(config) ==
    IF config.grid_mapping = "omitted" THEN "none"
    ELSE IF HasGridMapping(config.grid_mapping) THEN "registry"
    ELSE IF config.grid_mapping \in Ids THEN "dataset"
    ELSE "unknown"

\* multistore.py:298-299: the data id of the artifact the reference names
ReferenceDataId(config) == GetDataId(datasets[IndexOf(config.grid_mapping)])

\* multistore.py:300: what storage.open_data(data_id) can do
OpenDataKinds(store, data_id) ==
    IF HasData(store, data_id) THEN CallKinds ELSE CallKinds \ {"return"}

\* multistore.py:291-336: what a call of _process_dataset can do; ref is the
\* outcome of the open_data call for a named artifact, "none" without one
ProcessOutcomes(config) ==
    CASE GridMappingKind(config) = "unknown" ->
           { [kind |-> "Exception", val |-> ExceptionObj("KeyError"), ref |-> "none"],
             [kind |-> "KeyboardInterrupt", val |-> Str("KeyboardInterrupt"),
              ref |-> "none"] }
      [] GridMappingKind(config) = "dataset" ->
           { [kind |-> k, val |-> RaisedBy(k, "open_data"), ref |-> k] :
               k \in OpenDataKinds(storage, ReferenceDataId(config)) \ {"return"} }
           \cup
           { [kind |-> k, val |-> StageOutcome(k, "process").val, ref |-> "return"] :
               k \in IF "return" \in OpenDataKinds(storage, ReferenceDataId(config))
                     THEN CallKinds ELSE {} }
      [] OTHER ->
           { [kind |-> k, val |-> StageOutcome(k, "process").val, ref |-> "none"] :
               k \in CallKinds }

\* multistore.py:199-209 and 291-336: ds = self._process_dataset(ds, config_ds)
ProcessDataset ==
    /\ pc = "process"
    /\ \E outcome \in ProcessOutcomes(Current) :
         LET result == SafeExecute(outcome)
         IN /\ calls' = calls \o
                 (IF outcome.ref = "none" THEN <<>>
                  ELSE <<Call("open_data", "grid_mapping", CurrentId, outcome.ref)>>)
                 \o <<Call("process", "stage", CurrentId, outcome.kind)>>
            /\ lastCall' = [kind |-> outcome.kind, val |-> outcome.val,
                            result |-> result]
            /\ AfterStage(result, WriteEvent(CurrentId), "write")
    /\ UNCHANGED <<datasets, storage>>
    /\ UNCHANGED setupVars
    /\ UNCHANGED <<gmVars, display, histVars, generalVars, openVars>>

\* multistore.py:210-218 and 338-347: ds = self._write_dataset(ds, config_ds);
\* a write that fails may leave a partial output under the data id
WriteDataset ==
    /\ pc = "write"
    /\ \E kind \in CallKinds :
         LET outcome == StageOutcome(kind, "write")
             result == SafeExecute(outcome)
         IN /\ calls' = Append(calls, Call("write", "stage", CurrentId, kind))
            /\ lastCall' = [kind |-> kind, val |-> outcome.val, result |-> result]
            /\ IF kind = "return"
               THEN storage' = WriteData(storage, WriteDataId(Current))
               ELSE storage' \in {storage, WriteData(storage, WriteDataId(Current))}
            /\ IF result.raised
               THEN /\ Escape(result.value)
                    /\ UNCHANGED ds
               ELSE /\ ds' = result.value
                    /\ UNCHANGED escaped
                    /\ IF IsDataset(result.value)
                       THEN /\ Notify(FinishedEvent(CurrentId))
                            /\ NextDataset
                       ELSE /\ pc' = "cleanup"
                            /\ UNCHANGED <<idx, states, events, statusSeq,
                                           shown, logged>>
    /\ UNCHANGED <<datasets>>
    /\ UNCHANGED setupVars
    /\ UNCHANGED <<gmVars, display, histVars, generalVars, openVars>>

\* multistore.py:219-226: delete a partial output, then report the failure;
\* has_data and delete_data are called outside any wrapper
Cleanup ==
    /\ pc = "cleanup"
    /\ \E hasKind \in CallKinds :
         IF hasKind # "return"
         THEN /\ calls' = Append(calls, Call("has_data", "cleanup", CurrentId, hasKind))
              /\ Escape(RaisedBy(hasKind, "has_data"))
              /\ UNCHANGED storage
         ELSE IF ~HasData(storage, WriteDataId(Current))
              THEN /\ calls' = Append(calls, Call("has_data", "cleanup", CurrentId, "False"))
                   /\ storage' = CleanupStore(storage, WriteDataId(Current))
                   /\ Notify(ErrorEvent(CurrentId, ds))
                   /\ NextDataset
                   /\ UNCHANGED escaped
              ELSE \E delKind \in CallKinds :
                     /\ calls' = calls \o
                           <<Call("has_data", "cleanup", CurrentId, "True"),
                             Call("delete_data", "cleanup", CurrentId, delKind)>>
                     /\ IF delKind = "return"
                        THEN /\ storage' = CleanupStore(storage, WriteDataId(Current))
                             /\ Notify(ErrorEvent(CurrentId, ds))
                             /\ NextDataset
                             /\ UNCHANGED escaped
                        ELSE /\ storage' \in {storage,
                                              DeleteData(storage, WriteDataId(Current))}
                             /\ Escape(RaisedBy(delKind, "delete_data"))
    /\ UNCHANGED <<datasets, ds, lastCall>>
    /\ UNCHANGED setupVars
    /\ UNCHANGED <<gmVars, display, histVars, generalVars, openVars>>

\* ------------------------------------------------------------------- setup
\* an entry of the log of operations on the source stores and of the
\* `already preloaded` reports; spec is the position of the PreloadSpec (0
\* in store setup), of the archive id a cache query is made for
LogEntry(op, spec, store, of, ids, res, silent) ==
    [op |-> op, spec |-> spec, store |-> store, of |-> of, ids |-> ids,
     res |-> res, silent |-> silent]

BoolStr(b) == IF b THEN "True" ELSE "False"

\* state at the call of MultiSourceDataStore(config), in a fresh process
InitSetup ==
    /\ datasets = [i \in Indices |->
                     [identifier |-> DatasetNames[i], format_id |-> "zarr",
                      grid_mapping |-> "omitted"]]
    /\ storage = {}
    /\ states = [id \in {} |-> GeneratorState(id, "waiting", NoMessage, NoException)]
    /\ pc = "config"
    /\ idx = 1
    /\ ds = NoException
    /\ events = <<>>
    /\ calls = <<>>
    /\ statusSeq = [id \in Ids |-> <<>>]
    /\ lastCall = NoCall
    /\ escaped = NoException
    /\ data_stores \in DataStoresPool
    /\ sources \in [Indices -> SourcesPool]
    /\ preload_datasets \in PreloadDatasetsPool
    /\ general_given \in GeneralPool
    /\ notebook = FALSE
    /\ general = GeneralUnset
    /\ applied = NothingApplied
    /\ preload_map = EmptyMap
    /\ built = [data_stores |-> data_stores, sources |-> sources,
                preload_datasets |-> preload_datasets, preload_map |-> EmptyMap]
    /\ registry = {}
    /\ cache \in {{}, {D_ax}, {D_ax, D_ay, D_b}}
    /\ plog = <<>>
    /\ pidx = 1
    /\ GridDefaults
    /\ ViewDefaults
    /\ HistDefaults
    /\ OpenDefaults

\* the identifiers of the declared stores
StoreIdentifiers == {data_stores[k].identifier : k \in 1..Len(data_stores)}

\* config.py:283-285 dropped: the constructor without its assertion
WriteStoreGivenUnchecked == TRUE

\* config.py:283-285: assert NAME_WRITE_STORE in self.data_stores.keys()
WriteStoreGiven == NAME_WRITE_STORE \in StoreIdentifiers

\* config.py:264-285: MultiSourceConfig(config); `built` keeps what the
\* configuration object holds when its constructor returns
LoadConfig ==
    /\ pc = "config"
    /\ general' = GeneralSetup(general_given, notebook)
    /\ applied' = Applied(general')
    /\ preload_map' = GetPreloadMap(preload_datasets, sources)
    /\ built' = [data_stores |-> data_stores, sources |-> sources,
                 preload_datasets |-> preload_datasets,
                 preload_map |-> preload_map']
    /\ IF WriteStoreGiven
       THEN /\ pc' = "stores"
            /\ UNCHANGED escaped
       ELSE /\ pc' = "raised"
            /\ escaped' = ExceptionObj("AssertionError")
    /\ UNCHANGED <<datasets, storage, states, idx, ds, events, calls, statusSeq,
                   lastCall, data_stores, sources, preload_datasets,
                   registry, cache, plog, pidx>>
    /\ UNCHANGED <<general_given, notebook>>
    /\ UNCHANGED <<gmVars, viewVars, histVars, openVars>>

\* configurations that differ in their general section, loaded in and
\* outside a notebook
InitGeneral ==
    /\ datasets = [i \in Indices |->
                     [identifier |-> DatasetNames[i], format_id |-> "zarr",
                      grid_mapping |-> "omitted"]]
    /\ storage = {}
    /\ states = [id \in {} |-> GeneratorState(id, "waiting", NoMessage, NoException)]
    /\ pc = "config"
    /\ idx = 1
    /\ ds = NoException
    /\ events = <<>>
    /\ calls = <<>>
    /\ statusSeq = [id \in Ids |-> <<>>]
    /\ lastCall = NoCall
    /\ escaped = NoException
    /\ data_stores = << StoreSpec("storage", "memory", StoreParams(TRUE, "absent")),
                        StoreSpec("src", "zenodo", StoreParams(TRUE, "absent")) >>
    /\ sources = [i \in Indices |-> [kind |-> "single", data_ids |-> <<D_b>>]]
    /\ preload_datasets = NoPreload
    /\ general_given \in GeneralSections
    /\ notebook \in BOOLEAN
    /\ general = GeneralUnset
    /\ applied = NothingApplied
    /\ preload_map = EmptyMap
    /\ built = [data_stores |-> data_stores, sources |-> sources,
                preload_datasets |-> preload_datasets, preload_map |-> EmptyMap]
    /\ registry = {}
    /\ cache = {}
    /\ plog = <<>>
    /\ pidx = 1
    /\ GridDefaults
    /\ ViewDefaults
    /\ HistDefaults
    /\ OpenDefaults

\* the loading of the configuration, for every general section
SpecGeneral == InitGeneral /\ [][LoadConfig]_vars

\* stores.py:34-37: the store_params a store is opened with; those of a
\* `clms` store get their credentials replaced by the parsed file
ParsedStoreParams(config_store) ==
    IF config_store.store_id = "clms" /\ config_store.store_params.given
    THEN StoreParams(TRUE, "parsed")
    ELSE config_store.store_params

\* stores.py:38-42: setattr(cls, identifier, ...) for the first n stores
RegistryAfter(n, failed) ==
    registry \cup {data_stores[k].identifier : k \in 1..n}

\* stores.py:30-44: DataStores.setup_data_stores(config); the opening of the
\* store at failAt raises (0: none does), before or after its credentials
\* are parsed
SetupDataStores ==
    /\ pc = "stores"
    /\ \E failAt \in 0..Len(data_stores), kind \in CallKinds \ {"return"},
          parsedFirst \in BOOLEAN :
         LET n == IF failAt = 0 THEN Len(data_stores) ELSE failAt - 1
             m == IF failAt # 0 /\ parsedFirst THEN failAt ELSE n
         IN /\ failAt = 0 => (kind = "Exception" /\ parsedFirst)
            /\ (failAt # 0 /\ ~parsedFirst) => kind = "Exception"
            /\ data_stores' = [k \in 1..Len(data_stores) |->
                                 IF k <= m
                                 THEN [data_stores[k] EXCEPT
                                         !.store_params = ParsedStoreParams(data_stores[k])]
                                 ELSE data_stores[k]]
            /\ registry' = RegistryAfter(n, failAt # 0)
            /\ plog' = plog \o
                 [k \in 1..(IF failAt = 0 THEN n ELSE failAt) |->
                    LogEntry("new_data_store", 0, data_stores[k].identifier, <<>>, <<>>,
                             IF k = failAt THEN kind ELSE "return", "none")]
            /\ IF failAt = 0
               THEN /\ pc' = "states"
                    /\ UNCHANGED escaped
               ELSE /\ pc' = "raised"
                    /\ escaped' = RaisedBy(kind, "new_data_store")
    /\ UNCHANGED <<datasets, storage, states, idx, ds, events, calls, statusSeq,
                   lastCall, sources, preload_datasets, general, preload_map,
                   built, cache, pidx>>
    /\ UNCHANGED <<gmVars, viewVars, histVars, generalVars, openVars>>

\* multistore.py:69-82: the grid mappings of the section become attributes
\* of the class GridMappings, then the state records, then the preload
\* phase if preload_datasets is given
CreateStates ==
    /\ pc = "states"
    /\ gm_registry' = IF grid_mappings.given /\ grid_mappings.ids # {}
                      THEN gm_registry \cup grid_mappings.ids
                      ELSE gm_registry
    /\ UNCHANGED grid_mappings
    /\ states' = InitialStates
    /\ statusSeq' = [id \in Ids |-> <<InitialStates[id].status>>]
    /\ pc' = IF preload_datasets.given /\ Len(preload_datasets.specs) > 0
             THEN "preload" ELSE "visit"
    /\ UNCHANGED <<datasets, storage, idx, ds, events, calls, lastCall, escaped>>
    /\ UNCHANGED setupVars
    /\ StartDisplay
    /\ UNCHANGED <<logged, histVars, generalVars, openVars>>

\* ----------------------------------------------------------------- preload
\* the PreloadSpec the loop of _preload_datasets is at
CurrentPreload == preload_datasets.specs[pidx]

\* any(...) in place of all(...)
IsPreloadedAny(pm, cch, archive) ==
    \E q \in 1..Len(MapGet(pm, archive)) : MapGet(pm, archive)[q] \in cch

\* multistore.py:131-134: all(store.cache_store.has_data(data_id) for
\* data_id in self.config.preload_map[data_id_preload])
IsPreloaded(pm, cch, archive) ==
    \A q \in 1..Len(MapGet(pm, archive)) : MapGet(pm, archive)[q] \in cch

\* multistore.py:124-139: data_ids_preloaded
DataIdsPreloaded(config_preload, pm, cch) ==
    IF general.force_preload THEN <<>>
    ELSE SelectSeq(config_preload.data_ids, LAMBDA a : IsPreloaded(pm, cch, a))

\* data_ids filtered even when force_preload is set
DataIdsToPreloadFiltered(config_preload, pm, cch) ==
    SelectSeq(config_preload.data_ids, LAMBDA a : ~IsPreloaded(pm, cch, a))

\* multistore.py:124-139: data_ids
DataIdsToPreload(config_preload, pm, cch) ==
    IF general.force_preload THEN config_preload.data_ids
    ELSE SelectSeq(config_preload.data_ids, LAMBDA a : ~IsPreloaded(pm, cch, a))

\* the cache queries all(...) makes for one archive id: it stops at the
\* first data id that is missing
QueriesFor(pm, cch, archive) ==
    LET mapped == MapGet(pm, archive)
        misses == {q \in 1..Len(mapped) : mapped[q] \notin cch}
        stop == IF misses = {} THEN Len(mapped)
                ELSE CHOOSE q \in misses : \A r \in misses : q <= r
    IN [q \in 1..stop |->
          LogEntry("has_data", pidx, CurrentPreload.store, archive, <<mapped[q]>>,
                   BoolStr(mapped[q] \in cch), "none")]

\* the cache queries of the filter loop for the archive ids from k on
RECURSIVE QueriesFrom(_, _, _, _)
QueriesFrom(archives, pm, cch, k) ==
    IF k > Len(archives) THEN <<>>
    ELSE QueriesFor(pm, cch, archives[k]) \o QueriesFrom(archives, pm, cch, k + 1)

\* multistore.py:127-139: the cache queries of one PreloadSpec
Queries(config_preload, pm, cch) ==
    IF general.force_preload THEN <<>>
    ELSE QueriesFrom(config_preload.data_ids, pm, cch, 1)

\* the preload map after the lookups for the first n archive ids
RECURSIVE TouchAll(_, _, _)
TouchAll(pm, archives, n) ==
    IF n = 0 THEN pm
    ELSE MapTouch(TouchAll(pm, archives, n - 1), archives[n])

\* multistore.py:154-156: the `already preloaded` reports
Reports(preloaded) ==
    [k \in 1..Len(preloaded) |->
       LogEntry("already preloaded", pidx, CurrentPreload.store, <<>>,
                <<preloaded[k]>>, "none", "none")]

\* multistore.py:165-166: preload_params["silent"] = general["visualize"]
SilentDefault == BoolStr(general.visualize)

\* multistore.py:164-166: the preload_params passed to preload_data
PassedPreloadParams(preload_params) ==
    IF preload_params.silent = "absent"
    THEN PreloadParams(TRUE, SilentDefault)
    ELSE PreloadParams(TRUE, preload_params.silent)

\* multistore.py:164-166: what the PreloadSpec holds afterwards; a dict that
\* config_preload.get() created is not kept
KeptPreloadParams(preload_params) ==
    IF preload_params.given THEN PassedPreloadParams(preload_params)
    ELSE preload_params

\* store.preload_data(...) called whether or not data_ids is empty
PreloadCallsUnguarded(data_ids, kind, silent) ==
    <<LogEntry("preload_data", pidx, CurrentPreload.store, <<>>, data_ids,
               kind, silent)>>

\* multistore.py:163-167: if data_ids: store.preload_data(*data_ids, ...)
PreloadCalls(data_ids, kind, silent) ==
    IF data_ids = <<>> THEN <<>>
    ELSE <<LogEntry("preload_data", pidx, CurrentPreload.store, <<>>, data_ids,
                    kind, silent)>>

\* the source data ids an archive leaves in the cache when it is preloaded
RECURSIVE Extracted(_, _, _)
Extracted(pm, archives, k) ==
    IF k > Len(archives) THEN {}
    ELSE {MapGet(pm, archives[k])[q] : q \in 1..Len(MapGet(pm, archives[k]))}
         \cup Extracted(pm, archives, k + 1)

\* the exception is dropped and the loop goes on with the next PreloadSpec
EscapePreloadContinue(exception) ==
    /\ pidx' = pidx + 1
    /\ pc' = IF pidx + 1 > Len(preload_datasets.specs) THEN "visit" ELSE "preload"
    /\ UNCHANGED escaped

\* an exception leaves _preload_datasets and the constructor
EscapePreload(exception) ==
    /\ pc' = "raised"
    /\ escaped' = exception
    /\ UNCHANGED pidx

\* multistore.py:121-167: one pass of the loop over the PreloadSpecs
PreloadSpecStep ==
    /\ pc = "preload"
    /\ IF CurrentPreload.store \notin registry
       THEN \* getattr(self.stores, ...) raises AttributeError
            /\ EscapePreload(ExceptionObj("AttributeError"))
            /\ UNCHANGED <<preload_datasets, preload_map, cache, plog>>
       ELSE LET queries == Queries(CurrentPreload, preload_map, cache)
                archives == CurrentPreload.data_ids
            IN \E failAt \in 0..Len(queries), kind \in CallKinds :
                 IF failAt # 0
                 THEN \* a cache query raises
                      /\ kind # "return"
                      /\ plog' = plog \o SubSeq(queries, 1, failAt - 1) \o
                                 <<[queries[failAt] EXCEPT !.res = kind]>>
                      /\ preload_map' =
                           TouchAll(preload_map, archives,
                                    CHOOSE n \in 1..Len(archives) :
                                        /\ archives[n] = queries[failAt].of
                                        /\ \A r \in 1..(n - 1) :
                                             archives[r] # queries[failAt].of)
                      /\ EscapePreload(RaisedBy(kind, "has_data"))
                      /\ UNCHANGED <<preload_datasets, cache>>
                 ELSE LET preloaded == DataIdsPreloaded(CurrentPreload, preload_map, cache)
                          data_ids == DataIdsToPreload(CurrentPreload, preload_map, cache)
                          passed == PassedPreloadParams(CurrentPreload.preload_params)
                      IN /\ preload_map' =
                              IF general.force_preload THEN preload_map
                              ELSE TouchAll(preload_map, archives, Len(archives))
                         /\ plog' = plog \o queries \o Reports(preloaded) \o
                                    PreloadCalls(data_ids, kind, passed.silent)
                         /\ IF data_ids = <<>>
                            THEN /\ kind = "return"
                                 /\ UNCHANGED <<preload_datasets, cache>>
                            ELSE /\ preload_datasets' =
                                      [preload_datasets EXCEPT
                                         !.specs[pidx].preload_params =
                                             KeptPreloadParams(@)]
                                 /\ IF kind = "return"
                                    THEN cache' = cache \cup Extracted(preload_map, data_ids, 1)
                                    ELSE cache' \in {cache,
                                                     cache \cup Extracted(preload_map, data_ids, 1)}
                         /\ IF kind = "return"
                            THEN /\ pidx' = pidx + 1
                                 /\ pc' = IF pidx + 1 > Len(preload_datasets.specs)
                                          THEN "visit" ELSE "preload"
                                 /\ UNCHANGED escaped
                            ELSE EscapePreload(RaisedBy(kind, "preload_data"))
    /\ UNCHANGED <<datasets, storage, states, idx, ds, events, calls, statusSeq,
                   lastCall, data_stores, sources, general, built, registry>>
    /\ StartDisplay
    /\ UNCHANGED <<gmVars, logged, histVars, generalVars, openVars>>

Next ==
    \/ SkipCheck
    \/ OpenDataset
    \/ ProcessDataset
    \/ WriteDataset
    \/ Cleanup

Spec == Init /\ [][Next]_vars

\* multistore.py:65-89: the constructor is called again with the same
\* configuration on the output store the first run left
Rerun ==
    /\ pc \in {"done", "raised"}
    /\ run = 1
    /\ run' = 2
    /\ first' = [status |-> [id \in Ids |-> states[id].status],
                 storage |-> storage]
    /\ storage0' = storage
    /\ states' = [id \in Ids |->
                    GeneratorState(id, "waiting", NoMessage, NoException)]
    /\ pc' = "visit"
    /\ idx' = 1
    /\ ds' = NoException
    /\ events' = <<>>
    /\ calls' = <<>>
    /\ statusSeq' = [id \in Ids |-> <<"waiting">>]
    /\ lastCall' = NoCall
    /\ escaped' = NoException
    /\ logged' = <<>>
    /\ UNCHANGED <<datasets, storage, display, shown>>
    /\ UNCHANGED setupVars
    /\ UNCHANGED <<gmVars, generalVars, openVars>>

\* the generation loop, and a second run after the first one
NextRerun ==
    \/ Next
    \/ Rerun

\* two runs with the same configuration on the same output store
SpecRerun == Init /\ [][NextRerun]_vars

\* records a GeneratorState can be asked to merge an event into
RecordPool(id) ==
    { GeneratorState(id, status, message, exception) :
        status \in {"waiting", "started"},
        message \in {NoMessage, <<"Open dataset", id, ".">>},
        exception \in {NoException, ExceptionObj("earlier")} }

\* events a caller can hand to GeneratorState.update
EventsFor(id) ==
    { GeneratorState(id, status, message, exception) :
        status \in {NoStatus, "stopped", "failed"},
        message \in {NoMessage, <<"Dataset", id, "finished.">>},
        exception \in {NoException, ExceptionObj("write")} }

EventPool == UNION {EventsFor(id) : id \in Ids}

\* records before a call of GeneratorState.update
InitUpdate ==
    /\ datasets = [i \in Indices |->
                     [identifier |-> DatasetNames[i], format_id |-> "zarr",
                      grid_mapping |-> "omitted"]]
    /\ storage = {}
    /\ states \in [Ids -> UNION {RecordPool(id) : id \in Ids}]
    /\ \A id \in Ids : states[id].identifier = id
    /\ pc = "update"
    /\ idx = 1
    /\ ds = NoException
    /\ events = <<>>
    /\ calls = <<>>
    /\ statusSeq = [id \in Ids |-> <<states[id].status>>]
    /\ lastCall = NoCall
    /\ escaped = NoException
    /\ SetupDone
    /\ GridDefaults
    /\ ViewDefaults
    /\ HistDefaults
    /\ OpenDefaults

\* visualization.py:61-74: one call target.update(event), for any record and
\* any event
ApplyUpdate ==
    /\ pc = "update"
    /\ \E target \in Ids, event \in EventPool :
          /\ states' = [states EXCEPT ![target] = GeneratorStateUpdate(@, event)]
          /\ events' = <<event>>
          /\ calls' = <<Call("update", "record", target, "return")>>
          /\ statusSeq' = [statusSeq EXCEPT
                              ![target] = Append(@, states'[target].status)]
    /\ pc' = "updated"
    /\ UNCHANGED <<datasets, storage, idx, ds, lastCall, escaped>>
    /\ UNCHANGED setupVars
    /\ UNCHANGED <<gmVars, viewVars, histVars, generalVars, openVars>>

\* single calls of GeneratorState.update
SpecUpdate == InitUpdate /\ [][ApplyUpdate]_vars

\* runs whose first artifact is opened source by source
InitOpen ==
    /\ datasets = [i \in Indices |->
                     [identifier |-> DatasetNames[i], format_id |-> "zarr",
                      grid_mapping |-> "omitted"]]
    /\ storage = {}
    /\ LoopStart
    /\ SetupDone
    /\ GridDefaults
    /\ ViewDefaults
    /\ HistDefaults
    /\ open_config \in OpenConfigPool
    /\ store_caps \in CapsPool
    /\ open_pos = 0
    /\ dss = <<>>
    /\ olog = <<>>

\* the generation loop with the open stage taken source by source
NextOpen ==
    \/ SkipCheck
    \/ OpenSource
    \/ OpenFinish
    \/ ProcessDataset
    \/ WriteDataset
    \/ Cleanup

SpecOpen == InitOpen /\ [][NextOpen]_vars

\* the generation loop with and without the table
SpecView == InitView /\ [][Next]_vars

\* the generation loop over artifacts that name grid mappings
SpecGrid == InitGrid /\ [][Next]_vars

\* the constructor up to the first artifact: configuration, store setup,
\* state records and the preload phase
NextSetup ==
    \/ LoadConfig
    \/ SetupDataStores
    \/ CreateStates
    \/ PreloadSpecStep

SpecSetup == InitSetup /\ [][NextSetup]_vars

\* --------------------------------------------------- runs in one process
\* the data_stores sections of the runs: with and without the store `src`
RunsStores ==
    { << StoreSpec("storage", "memory", StoreParams(TRUE, "absent")),
         StoreSpec("src", "zenodo", StoreParams(TRUE, "absent")) >>,
      << StoreSpec("storage", "memory", StoreParams(TRUE, "absent")) >> }

\* the grid_mappings sections of the runs: one grid mapping, gm1 or gm2
RunsGridMappings ==
    { [given |-> TRUE, ids |-> {"gm1"}], [given |-> TRUE, ids |-> {"gm2"}] }

\* state at the first call of MultiSourceDataStore(config) in a process:
\* the first artifact names the grid mapping gm1, one PreloadSpec names the
\* store `src`, and force_preload is on
InitRuns ==
    /\ datasets = [i \in Indices |->
                     [identifier |-> DatasetNames[i], format_id |-> "zarr",
                      grid_mapping |-> IF i = 1 THEN "gm1" ELSE "omitted"]]
    /\ storage = {}
    /\ states = [id \in {} |-> GeneratorState(id, "waiting", NoMessage, NoException)]
    /\ pc = "config"
    /\ idx = 1
    /\ ds = NoException
    /\ events = <<>>
    /\ calls = <<>>
    /\ statusSeq = [id \in Ids |-> <<>>]
    /\ lastCall = NoCall
    /\ escaped = NoException
    /\ data_stores \in RunsStores
    /\ sources = [i \in Indices |-> [kind |-> "single", data_ids |-> <<D_b>>]]
    /\ preload_datasets =
          [given |-> TRUE,
           specs |-> <<[store |-> "src", data_ids |-> <<A_b>>,
                        preload_params |-> PreloadParams(FALSE, "absent")]>>]
    /\ general_given = GeneralSection(Given(FALSE), Given(TRUE), Absent, Absent)
    /\ notebook = FALSE
    /\ general = GeneralUnset
    /\ applied = NothingApplied
    /\ preload_map = EmptyMap
    /\ built = [data_stores |-> data_stores, sources |-> sources,
                preload_datasets |-> preload_datasets, preload_map |-> EmptyMap]
    /\ registry = {}
    /\ cache = {}
    /\ plog = <<>>
    /\ pidx = 1
    /\ grid_mappings \in RunsGridMappings
    /\ gm_registry = {}
    /\ ViewDefaults
    /\ HistDefaults
    /\ OpenDefaults

\* multistore.py:65-89: after the first call has returned or raised, the
\* constructor is called again in the same process with a configuration
\* that has its own data_stores and grid_mappings sections; the attributes
\* of the classes DataStores and GridMappings are what the first call left
SecondRun ==
    /\ pc \in {"done", "raised"}
    /\ run = 1
    /\ run' = 2
    /\ first' = [status |-> [id \in DOMAIN states |-> states[id].status],
                 storage |-> storage]
    /\ storage0' = storage
    /\ data_stores' \in RunsStores
    /\ grid_mappings' \in RunsGridMappings
    /\ states' = [id \in {} |-> GeneratorState(id, "waiting", NoMessage, NoException)]
    /\ pc' = "config"
    /\ idx' = 1
    /\ ds' = NoException
    /\ events' = <<>>
    /\ calls' = <<>>
    /\ statusSeq' = [id \in Ids |-> <<>>]
    /\ lastCall' = NoCall
    /\ escaped' = NoException
    /\ logged' = <<>>
    /\ general' = GeneralUnset
    /\ preload_map' = EmptyMap
    /\ built' = [data_stores |-> data_stores', sources |-> sources,
                 preload_datasets |-> preload_datasets, preload_map |-> EmptyMap]
    /\ plog' = <<>>
    /\ pidx' = 1
    /\ UNCHANGED <<datasets, storage, sources, preload_datasets, registry, cache,
                   gm_registry, display, shown>>
    /\ UNCHANGED <<generalVars, openVars>>

\* two constructor calls in one process, each from configuration load to
\* the end of the generation loop
NextRuns ==
    \/ LoadConfig
    \/ SetupDataStores
    \/ CreateStates
    \/ PreloadSpecStep
    \/ SkipCheck
    \/ OpenDataset
    \/ ProcessDataset
    \/ WriteDataset
    \/ Cleanup
    \/ SecondRun

SpecRuns == InitRuns /\ [][NextRuns]_vars

\* ----------------------------------------------------- reading the history

\* the events sent for one artifact, in order
EventsOf(id) == SelectSeq(events, LAMBDA e : e.identifier = id)

\* the events of one artifact that carry a terminal status
TerminalEventsOf(id) ==
    SelectSeq(EventsOf(id), LAMBDA e : e.status \in {"stopped", "failed"})

HasCall(op, site, id, results) ==
    \E k \in 1..Len(calls) :
        /\ calls[k].op = op
        /\ calls[k].site = site
        /\ calls[k].id = id
        /\ calls[k].res \in results

\* the skip check found the output of the artifact in the output store
Skipped(id) == HasCall("has_data", "skip", id, {"True"})
\* the skip check of the artifact has been made
Visited(id) ==
    HasCall("has_data", "skip", id, {"True", "False", "Exception", "KeyboardInterrupt"})
\* one of the three stages of the artifact has been called
StageCalled(id) ==
    \E op \in {"open", "process", "write"} :
        HasCall(op, "stage", id, CallKinds)
\* a stage of the artifact raised an Exception
StageRaised(id) ==
    \E op \in {"open", "process", "write"} :
        HasCall(op, "stage", id, {"Exception"})
\* a stage of the artifact was hit by a KeyboardInterrupt
StageInterrupted(id) ==
    \E op \in {"open", "process", "write"} :
        HasCall(op, "stage", id, {"KeyboardInterrupt"})
WriteFailed(id) == HasCall("write", "stage", id, {"Exception", "KeyboardInterrupt"})
\* has_data or delete_data of the cleanup raised
CleanupRaised(id) ==
    \/ HasCall("has_data", "cleanup", id, {"Exception"})
    \/ HasCall("delete_data", "cleanup", id, {"Exception"})
FailedEmitted(id) == \E k \in 1..Len(events) :
                        events[k].identifier = id /\ events[k].status = "failed"
RunEnded == pc \in {"done", "raised"}
OutputId(id) == GetDataId(datasets[IndexOf(id)])

IsPrefix(s, t) == Len(s) <= Len(t) /\ SubSeq(t, 1, Len(s)) = s

\* ------------------------------------------------------------------ claims

AllowedStatusSeqs ==
    { <<"waiting", "started", "stopped">>,
      <<"waiting", "started", "failed">>,
      <<"waiting", "stopped">> }

\* C1: the statuses assigned to an artifact's record form, at every moment,
\* a prefix of waiting->started->stopped, waiting->started->failed or
\* waiting->stopped (so nothing follows stopped or failed), the record holds
\* the last of them, and when the constructor returns the sequence is one of
\* the three in full.
C1_StatusLifecycle ==
    \A id \in Ids :
        /\ states[id].status = statusSeq[id][Len(statusSeq[id])]
        /\ \E t \in AllowedStatusSeqs : IsPrefix(statusSeq[id], t)
        /\ pc = "done" => statusSeq[id] \in AllowedStatusSeqs

C1_Witness ==
    /\ pc = "done"
    /\ \E id \in Ids : statusSeq[id] = <<"waiting", "started", "failed">>
    /\ \E id \in Ids : statusSeq[id] = <<"waiting", "stopped">>

\* C2: no artifact ever receives more than one terminal event (stopped or
\* failed), and when the constructor returns normally every artifact has
\* received exactly one and its status is neither started nor waiting.
C2_OneTerminalEvent ==
    \A id \in Ids :
        /\ Len(TerminalEventsOf(id)) <= 1
        /\ pc = "done" =>
              /\ Len(TerminalEventsOf(id)) = 1
              /\ states[id].status \in {"stopped", "failed"}

C2_Witness ==
    /\ pc = "done"
    /\ \E id \in Ids : states[id].status = "failed"
    /\ \E id \in Ids : states[id].status = "stopped" /\ StageCalled(id)

\* C3: an artifact whose output id the output store reports present at the
\* skip check has none of its stages called, is never started, and its
\* record is stopped with the message "Dataset '<identifier>' already
\* generated." and no exception.
C3_SkipExisting ==
    \A id \in Ids :
        Skipped(id) =>
            /\ ~StageCalled(id)
            /\ \A k \in 1..Len(statusSeq[id]) : statusSeq[id][k] # "started"
            /\ \A k \in 1..Len(events) :
                  events[k].identifier = id => events[k].status # "started"
            /\ states[id] = [identifier |-> id, status |-> "stopped",
                             message |-> <<"Dataset", id, "already generated.">>,
                             exception |-> NoException]

C3_Witness ==
    /\ pc = "done"
    /\ \E id \in Ids : Skipped(id) /\ OutputId(id) \in storage
    /\ \E id \in Ids : ~Skipped(id) /\ StageCalled(id)

\* C4: when a stage of artifact A raised an Exception, A ends failed and
\* every artifact B declared after A is still visited.
C4_FailureIsolation ==
    RunEnded =>
        \A i \in Indices, j \in Indices :
            (i < j /\ StageRaised(DatasetNames[i])) =>
                /\ states[DatasetNames[i]].status = "failed"
                /\ Visited(DatasetNames[j])

\* C5: no failure of a store call made for a single artifact leaves the
\* constructor as an exception.
C5_NoEscape == pc # "raised" /\ escaped = NoException

\* C6 as stated: after a failed write the output store does not hold the
\* output id when the failed event is emitted and at the end of the run.
C6_Original ==
    \A id \in Ids :
        (WriteFailed(id) /\ (FailedEmitted(id) \/ RunEnded)) =>
            ~HasData(storage, OutputId(id))

\* C6 (amended): whenever the failed event of an artifact whose write failed
\* has been emitted, the output store does not hold its output id, then and
\* until the end of the run; when the cleanup itself raised, no failed event
\* has been emitted and the constructor has raised.
C6_CleanupBeforeFailedEvent ==
    \A id \in Ids :
        WriteFailed(id) =>
            /\ FailedEmitted(id) => ~HasData(storage, OutputId(id))
            /\ (CleanupRaised(id) \/ HasCall("has_data", "cleanup", id, {"KeyboardInterrupt"})
                  \/ HasCall("delete_data", "cleanup", id, {"KeyboardInterrupt"}))
                 => (~FailedEmitted(id) /\ pc = "raised")

C6_Witness ==
    \E id \in Ids :
        /\ WriteFailed(id)
        /\ HasCall("delete_data", "cleanup", id, {"return"})
        /\ FailedEmitted(id)
        /\ pc = "done"

\* C7: when the cleanup after a failed write itself raises, the artifact
\* still gets its failed event with the write error and the run goes on.
C7_CleanupFailureNotReported ==
    \A id \in Ids :
        CleanupRaised(id) =>
            /\ states[id].status = "failed"
            /\ states[id].exception = ExceptionObj("write")
            /\ pc # "raised"

\* C8: after a KeyboardInterrupt in a stage of artifact A, no artifact
\* declared after A is started or has a stage called.
C8_InterruptEndsRun ==
    \A i \in Indices, j \in Indices :
        (i < j /\ StageInterrupted(DatasetNames[i])) =>
            /\ ~StageCalled(DatasetNames[j])
            /\ \A k \in 1..Len(events) :
                  events[k].identifier = DatasetNames[j]
                      => events[k].status # "started"

\* C9: a call through the _safe_execute wrapper raises nothing to its caller;
\* the caller receives the wrapped function's result when it returned, the
\* exception object when it raised an Exception, and the fixed string when
\* it was interrupted.
C9_SafeExecute ==
    lastCall.kind # "none" =>
        /\ ~lastCall.result.raised
        /\ lastCall.kind = "return" =>
              /\ lastCall.result.value = lastCall.val
              /\ lastCall.val.type = "Dataset"
        /\ lastCall.kind = "Exception" =>
              /\ lastCall.result.value = lastCall.val
              /\ lastCall.val.type = "Exception"
        /\ lastCall.kind = "KeyboardInterrupt" =>
              lastCall.result.value =
                  [type |-> "str",
                   val |-> "Keyboard Interrupt caught! Exiting gracefully."]

C9_Witness ==
    /\ lastCall.kind = "KeyboardInterrupt"
    /\ ds.type = "str"
    /\ \E id \in Ids : states[id].exception.type = "str"

\* status and leading words of the message of each event of an artifact
Shape(id) ==
    [k \in 1..Len(EventsOf(id)) |->
        <<EventsOf(id)[k].status,
          IF EventsOf(id)[k].message = NoMessage THEN "-"
          ELSE EventsOf(id)[k].message[1] \o " ... " \o EventsOf(id)[k].message[3]>>]

Failures == {"Exception", "KeyboardInterrupt"}

\* C10: at the end of a run the events of an artifact are, in order, the
\* four of a success, the two of an open failure, the three of a process
\* failure, the four of a write failure, or the one of a skip.
C10_EventShapes ==
    RunEnded =>
        \A id \in Ids :
            /\ Skipped(id) =>
                 Shape(id) = << <<"stopped", "Dataset ... already generated.">> >>
            /\ HasCall("open", "stage", id, Failures) =>
                 Shape(id) = << <<"started", "Open dataset ... .">>,
                                <<"failed", "-">> >>
            /\ HasCall("process", "stage", id, Failures) =>
                 Shape(id) = << <<"started", "Open dataset ... .">>,
                                <<"None", "Processing dataset ... .">>,
                                <<"failed", "-">> >>
            /\ HasCall("write", "stage", id, Failures) =>
                 Shape(id) = << <<"started", "Open dataset ... .">>,
                                <<"None", "Processing dataset ... .">>,
                                <<"None", "Write dataset ... .">>,
                                <<"failed", "-">> >>
            /\ HasCall("write", "stage", id, {"return"}) =>
                 Shape(id) = << <<"started", "Open dataset ... .">>,
                                <<"None", "Processing dataset ... .">>,
                                <<"None", "Write dataset ... .">>,
                                <<"stopped", "Dataset ... finished.">> >>


\* --------------------------------------------------------------------- C11
\* what has happened so far is ordered by declaration: nothing is recorded
\* for an artifact the loop has not reached, every artifact the loop has left
\* ends with its one terminal event, and at most one record is `started`
C11_Ordered ==
    /\ Cardinality({id \in Ids : states[id].status = "started"}) <= 1
    /\ \A k \in 1..Len(events) : IndexOf(events[k].identifier) <= idx
    /\ \A k \in 1..Len(calls) : IndexOf(calls[k].id) <= idx
    /\ \A i \in Indices :
         i < idx =>
           LET es == EventsOf(DatasetNames[i])
           IN /\ Len(es) > 0
              /\ es[Len(es)].status \in {"stopped", "failed"}
              /\ Len(TerminalEventsOf(DatasetNames[i])) = 1

\* one step only adds events and store operations of the artifact the loop
\* is at, and the loop never goes back
C11_Step ==
    /\ idx' >= idx
    /\ IsPrefix(events, events')
    /\ IsPrefix(calls, calls')
    /\ \A k \in (Len(events) + 1)..Len(events') :
         events'[k].identifier = DatasetNames[idx]
    /\ \A k \in (Len(calls) + 1)..Len(calls') :
         calls'[k].id = DatasetNames[idx]

\* C11: artifacts are visited strictly sequentially in the declaration order
\* of the datasets list: every event and store operation of an artifact, up
\* to and including its terminal event, precedes the first event or store
\* operation of every artifact declared after it, and at any moment at most
\* one artifact has status started
C11_Sequential == [](C11_Ordered) /\ [][C11_Step]_vars

\* the second artifact is under way after the first ran through all stages
C11_Witness ==
    /\ idx = 2
    /\ states[DatasetNames[2]].status = "started"
    /\ HasCall("write", "stage", DatasetNames[1], CallKinds)
    /\ HasCall("open", "stage", DatasetNames[2], CallKinds)

\* ----------------------------------------------------------- preload phase
\* the log entries a step adds
StepLog == SubSeq(plog', Len(plog) + 1, Len(plog'))
\* the ids of the `already preloaded` reports among log entries
ReportedIn(log) ==
    LET es == SelectSeq(log, LAMBDA e : e.op = "already preloaded")
    IN [k \in 1..Len(es) |-> es[k].ids[1]]
\* the preload_data calls among log entries
PreloadCallsIn(log) == SelectSeq(log, LAMBDA e : e.op = "preload_data")
\* the log entries of the PreloadSpec at position p
LogOf(p) == SelectSeq(plog, LAMBDA e : e.spec = p)
\* the step is a pass of the preload loop that got past the filter
PartitionMade ==
    /\ pc = "preload"
    /\ \/ pidx' = pidx + 1
       \/ PreloadCallsIn(StepLog) # <<>>
\* every data id the index as built maps the archive id to is in the cache
Materialized(archive) ==
    \A q \in 1..Len(MapGet(built.preload_map, archive)) :
        MapGet(built.preload_map, archive)[q] \in cache

\* --------------------------------------------------------------------- C12
\* C12: with force_preload off, the archive ids of a PreloadSpec are split,
\* in their order, into those reported `already preloaded`, which are the
\* ones whose mapped data ids are all in the cache (also when there are
\* none), and those passed to preload_data, which are all the others;
\* preload_data is not called when every archive id is materialized
C12_Partition ==
    [][(PartitionMade /\ ~general.force_preload) =>
         LET archives == CurrentPreload.data_ids
             rest == SelectSeq(archives, LAMBDA a : ~Materialized(a))
             preloads == PreloadCallsIn(StepLog)
         IN /\ ReportedIn(StepLog) = SelectSeq(archives, Materialized)
            /\ IF rest = <<>> THEN preloads = <<>>
               ELSE Len(preloads) = 1 /\ preloads[1].ids = rest]_vars

\* a PreloadSpec had one archive reported and another one preloaded, and a
\* later one had every archive materialized and no preload_data call
C12_Witness ==
    /\ ~general.force_preload
    /\ pc = "visit"
    /\ pidx = 3
    /\ ReportedIn(LogOf(1)) # <<>>
    /\ PreloadCallsIn(LogOf(1)) # <<>>
    /\ ReportedIn(LogOf(2)) = preload_datasets.specs[2].data_ids
    /\ PreloadCallsIn(LogOf(2)) = <<>>

\* --------------------------------------------------------------------- C13
\* C13: with force_preload set, every archive id of a PreloadSpec is passed
\* to preload_data whatever the cache holds, no archive id is reported as
\* already preloaded, and the cache is not queried
C13_ForcePreload ==
    [][(pc = "preload" /\ general.force_preload
        /\ CurrentPreload.store \in registry) =>
         LET preloads == PreloadCallsIn(StepLog)
         IN /\ Len(preloads) = 1
            /\ preloads[1].ids = CurrentPreload.data_ids
            /\ ReportedIn(StepLog) = <<>>
            /\ \A k \in 1..Len(StepLog) : StepLog[k].op # "has_data"
            /\ Len(StepLog) = 1]_vars

\* a forced preload of archives that are all in the cache has returned
C13_Witness ==
    /\ general.force_preload
    /\ pidx > 1
    /\ \A q \in 1..Len(preload_datasets.specs[1].data_ids) :
         Materialized(preload_datasets.specs[1].data_ids[q])
    /\ cache # {}
    /\ PreloadCallsIn(LogOf(1)) # <<>>
    /\ PreloadCallsIn(LogOf(1))[1].res = "return"

\* --------------------------------------------------------------------- C14
\* C14: preload_data is called at most once for a PreloadSpec, with exactly
\* the archive ids of the PreloadSpec that were not reported as already
\* preloaded, in their declared order, and not at all when there is none
C14_PreloadOnce ==
    \A p \in 1..Len(preload_datasets.specs) :
        LET preloads == PreloadCallsIn(LogOf(p))
            reported == ReportedIn(LogOf(p))
            rest == SelectSeq(preload_datasets.specs[p].data_ids,
                              LAMBDA a : \A k \in 1..Len(reported) : reported[k] # a)
        IN /\ Len(preloads) <= 1
           /\ \A k \in 1..Len(preloads) :
                preloads[k].ids # <<>> /\ preloads[k].ids = rest
           /\ (p < pidx /\ rest = <<>>) => preloads = <<>>
           /\ (p < pidx /\ rest # <<>>) => Len(preloads) = 1

\* the preload phase ended with one PreloadSpec preloaded in part and the
\* other one not at all
C14_Witness ==
    /\ pc = "visit"
    /\ pidx = 3
    /\ Len(PreloadCallsIn(LogOf(1))) = 1
    /\ Len(PreloadCallsIn(LogOf(1))[1].ids) = 2
    /\ PreloadCallsIn(LogOf(2)) = <<>>

\* --------------------------------------------------------------------- C15
\* C15: a preload_data call of a PreloadSpec whose preload_params do not
\* supply `silent` gets silent = not visualize, and a supplied `silent` is
\* passed unchanged
C15_SilentDefault ==
    \A k \in 1..Len(plog) :
        plog[k].op = "preload_data" =>
            LET given == built.preload_datasets.specs[plog[k].spec].preload_params
            IN plog[k].silent = IF given.silent = "absent"
                                THEN BoolStr(~general.visualize)
                                ELSE given.silent

\* --------------------------------------------------------------------- C16
\* the archive id with its compressed extension stripped: the first format
\* whose extension ends the id is cut off its end
RECURSIVE StemFrom(_, _)
StemFrom(archive, k) ==
    IF k > Len(COMPRESSED_FORMATS) THEN archive
    ELSE IF EndsWith(archive, <<".">> \o COMPRESSED_FORMATS[k])
         THEN SubSeq(archive, 1, Len(archive) - Len(COMPRESSED_FORMATS[k]) - 1)
         ELSE StemFrom(archive, k + 1)
Stem(archive) == StemFrom(archive, 1)

\* the archive ids of all PreloadSpecs
ArchiveIds ==
    {AllArchives(preload_datasets.specs)[k] :
        k \in 1..Len(AllArchives(preload_datasets.specs))}

\* C16: the preload index built at config load maps each archive id of every
\* PreloadSpec to the list of the source data ids, of the single-source
\* artifacts and of the variables of composite artifacts in declaration
\* order, that contain the archive id's stem
C16_PreloadIndex ==
    (pc # "config" /\ preload_datasets.given) =>
        \A archive \in ArchiveIds :
            MapGet(built.preload_map, archive) =
                SelectSeq(AllSources(sources),
                          LAMBDA d : Contains(d, Stem(archive)))

\* --------------------------------------------------------------------- C17
\* C17: after configuration load the preload index, its key set and every
\* entry, stays as MultiSourceConfig built it
C17_IndexReadOnly ==
    pc # "config" => preload_map = built.preload_map

\* --------------------------------------------------------------------- C18
\* C18: after construction the artifact specs, preload specs and store specs
\* held by MultiSourceConfig, with their parameters, stay as they were when
\* MultiSourceConfig finished constructing
C18_ConfigImmutable ==
    pc # "config" =>
        /\ sources = built.sources
        /\ preload_datasets = built.preload_datasets
        /\ data_stores = built.data_stores

\* --------------------------------------------------------------------- C19
\* C19: a configuration whose data_stores lack the output-store identifier
\* is rejected by MultiSourceConfig with an error, before any data store is
\* opened, any preload is attempted, any state record is created and any
\* artifact is processed
C19_RejectedEarly ==
    (pc # "config" /\ \A k \in 1..Len(data_stores) :
                          data_stores[k].identifier # NAME_WRITE_STORE) =>
        /\ pc = "raised"
        /\ escaped = ExceptionObj("AssertionError")
        /\ registry = {}
        /\ plog = <<>>
        /\ DOMAIN states = {}
        /\ events = <<>>
        /\ calls = <<>>

\* a configuration that declares only a source store has been rejected
C19_Witness ==
    /\ pc = "raised"
    /\ Len(data_stores) = 1
    /\ data_stores[1].identifier = "src"
    /\ preload_datasets.given

\* --------------------------------------------------------------------- C20
\* C20: when the opening of a declared store fails in setup_data_stores, no
\* store opened earlier in that call remains resolvable by name
C20_AllOrNothing ==
    (\E k \in 1..Len(plog) :
        plog[k].op = "new_data_store" /\ plog[k].res # "return") =>
        /\ pc = "raised"
        /\ registry = {}

\* --------------------------------------------------------------------- C21
\* the open or the process stage of the artifact did not return a dataset
EarlyStageFailed(id) ==
    \/ HasCall("open", "stage", id, {"Exception", "KeyboardInterrupt"})
    \/ HasCall("process", "stage", id, {"Exception", "KeyboardInterrupt"})

\* an artifact whose open or process stage failed is failed for good, with
\* an exception, was never written and has no output
C21_Failed ==
    \A id \in Ids :
        EarlyStageFailed(id) =>
            /\ states[id].status = "failed"
            /\ states[id].exception # NoException
            /\ ~HasCall("write", "stage", id, CallKinds)
            /\ OutputId(id) \notin storage
            /\ WriteDataId(datasets[IndexOf(id)]) \notin storage

\* the step in which the open or the process stage fails records what the
\* wrapper captured as the exception of the artifact
C21_Captured ==
    (pc \in {"open", "process"} /\ ~IsDataset(lastCall'.result.value)) =>
        /\ states'[DatasetNames[idx]].status = "failed"
        /\ states'[DatasetNames[idx]].exception = lastCall'.result.value

\* C21: if the open stage or the process stage of an artifact fails, its
\* final state is failed with the captured error as exception,
\* _write_dataset is never called for it, and the output store holds no
\* entry under its output id after the run
C21_EarlyFailure == [](C21_Failed) /\ [][C21_Captured]_vars

\* a run has returned after the open stage of one artifact and the process
\* stage of another one failed
C21_Witness ==
    /\ pc = "done"
    /\ HasCall("open", "stage", DatasetNames[1], {"Exception"})
    /\ HasCall("process", "stage", DatasetNames[2], {"Exception"})

\* the name in the grid_mapping field of an artifact
GridMappingOf(id) == datasets[IndexOf(id)].grid_mapping

\* the names of the grid mappings the configuration declares
ConfiguredGridMappings == IF grid_mappings.given THEN grid_mappings.ids ELSE {}

\* the grid_mapping of the artifact names neither a configured grid mapping
\* nor a declared artifact
NamesNothing(id) ==
    /\ GridMappingOf(id) # "omitted"
    /\ GridMappingOf(id) \notin ConfiguredGridMappings
    /\ GridMappingOf(id) \notin Ids

\* the run is past the artifact
Passed(id) == idx > IndexOf(id) \/ pc = "done"

\* C22: an artifact whose grid_mapping names neither a configured grid
\* mapping nor a declared artifact fails in the process stage once its open
\* stage has returned a dataset, is never written and ends failed, while an
\* artifact declared before it that was written stays stopped; this holds
\* as well when the configuration has no grid_mappings section
C22_UnknownGridMapping ==
    \A id \in Ids :
        NamesNothing(id) =>
            /\ ~HasCall("process", "stage", id, {"return"})
            /\ ~HasCall("write", "stage", id, CallKinds)
            /\ HasCall("process", "stage", id, CallKinds) =>
                  /\ HasCall("open", "stage", id, {"return"})
                  /\ states[id].status = "failed"
                  /\ states[id].exception # NoException
            /\ (HasCall("open", "stage", id, {"return"}) /\ Passed(id)) =>
                  HasCall("process", "stage", id, {"Exception", "KeyboardInterrupt"})
            /\ \A other \in Ids :
                  (/\ IndexOf(other) < IndexOf(id)
                   /\ HasCall("write", "stage", other, {"return"})) =>
                      /\ states[other].status = "stopped"
                      /\ OutputId(other) \in storage

\* a run without grid_mappings section has returned: the first artifact was
\* written, the second one names a grid mapping and failed in its process
\* stage after its open stage returned a dataset
C22_Witness ==
    /\ pc = "done"
    /\ ~grid_mappings.given
    /\ GridMappingOf(DatasetNames[2]) = "gm1"
    /\ HasCall("write", "stage", DatasetNames[1], {"return"})
    /\ states[DatasetNames[1]].status = "stopped"
    /\ HasCall("open", "stage", DatasetNames[2], {"return"})
    /\ HasCall("process", "stage", DatasetNames[2], {"Exception"})
    /\ states[DatasetNames[2]].status = "failed"

\* the grid_mapping of the artifact names a declared artifact and no
\* configured grid mapping
NamesArtifact(id) ==
    /\ GridMappingOf(id) \in Ids
    /\ GridMappingOf(id) \notin ConfiguredGridMappings

\* the process stage of an artifact that names an artifact whose output is
\* not in the output store fails; it returns a dataset only if that output
\* is in the output store and has been opened
C23_AtProcess ==
    (pc = "process" /\ NamesArtifact(DatasetNames[idx])) =>
        /\ OutputId(GridMappingOf(DatasetNames[idx])) \notin storage =>
              /\ states'[DatasetNames[idx]].status = "failed"
              /\ lastCall'.kind # "return"
        /\ lastCall'.kind = "return" =>
              /\ OutputId(GridMappingOf(DatasetNames[idx])) \in storage
              /\ Len(calls') = Len(calls) + 2
              /\ calls'[Len(calls) + 1] =
                     Call("open_data", "grid_mapping", DatasetNames[idx], "return")

\* an artifact that names an artifact and went through its stages is
\* stopped only if the output of the named artifact was opened, and is
\* failed if that output did not exist before the run and the named
\* artifact is declared after it or failed earlier in the run
C23_Ends ==
    \A id \in Ids :
        (NamesArtifact(id) /\ HasCall("process", "stage", id, CallKinds)) =>
            /\ states[id].status = "stopped" =>
                  HasCall("open_data", "grid_mapping", id, {"return"})
            /\ (/\ OutputId(GridMappingOf(id)) \notin storage0
                /\ \/ IndexOf(GridMappingOf(id)) >= IndexOf(id)
                   \/ states[GridMappingOf(id)].status = "failed") =>
                  states[id].status = "failed"

\* C23: when the grid_mapping of an artifact A names another artifact R, the
\* target grid is taken from R's output in the output store at the time A
\* is processed: A can reach stopped only if R's output id is in the output
\* store at that moment, and if R is declared after A, or R failed earlier
\* in the run, and R's output did not exist before the run, A ends failed
C23_ReferenceOutput == [](C23_Ends) /\ [][C23_AtProcess]_vars

\* a run has returned in which the second artifact names the first one,
\* whose output did not exist before the run and was written in it, and is
\* stopped after that output was opened
C23_Witness ==
    /\ pc = "done"
    /\ GridMappingOf(DatasetNames[2]) = DatasetNames[1]
    /\ OutputId(DatasetNames[1]) \notin storage0
    /\ HasCall("write", "stage", DatasetNames[1], {"return"})
    /\ HasCall("open_data", "grid_mapping", DatasetNames[2], {"return"})
    /\ states[DatasetNames[2]].status = "stopped"

\* the line _notify logs for a failed event in the format the repository's
\* tests expect
ErrorLine(event) ==
    [level |-> "error", text |-> <<"An error occurred:">>, arg |-> event.exception]

\* the identifier of the artifact is part of the logged line
CarriesIdentifier(line, identifier) ==
    \E k \in 1..Len(line.text) : line.text[k] = identifier

AfterArtifact(id) ==
    [pc |-> IF IndexOf(id) + 1 > NumDatasets THEN "done" ELSE "visit",
     idx |-> IndexOf(id) + 1]

\* the loop is at the artifact
AtArtifact(p, id) == [pc |-> p, idx |-> IndexOf(id)]

\* where the loop stands after the operations on the stores made so far and
\* their answers
PositionAfter(log) ==
    IF log = <<>> THEN [pc |-> "visit", idx |-> 1]
    ELSE LET c == log[Len(log)]
         IN CASE c.op = "has_data" /\ c.site = "skip" ->
                   IF c.res = "True" THEN AfterArtifact(c.id)
                   ELSE IF c.res = "False" THEN AtArtifact("open", c.id)
                   ELSE AtArtifact("raised", c.id)
              [] c.op = "open" ->
                   IF c.res = "return" THEN AtArtifact("process", c.id)
                   ELSE AfterArtifact(c.id)
              [] c.op = "process" ->
                   IF c.res = "return" THEN AtArtifact("write", c.id)
                   ELSE AfterArtifact(c.id)
              [] c.op = "write" ->
                   IF c.res = "return" THEN AfterArtifact(c.id)
                   ELSE AtArtifact("cleanup", c.id)
              [] c.op = "has_data" /\ c.site = "cleanup" ->
                   IF c.res = "False" THEN AfterArtifact(c.id)
                   ELSE AtArtifact("raised", c.id)
              [] c.op = "delete_data" ->
                   IF c.res = "return" THEN AfterArtifact(c.id)
                   ELSE AtArtifact("raised", c.id)

\* the status of an artifact after the operations on the stores made so far
\* and their answers
StatusAfter(id) ==
    IF Skipped(id) \/ HasCall("write", "stage", id, {"return"}) THEN "stopped"
    ELSE IF \/ EarlyStageFailed(id)
            \/ HasCall("has_data", "cleanup", id, {"False"})
            \/ HasCall("delete_data", "cleanup", id, {"return"}) THEN "failed"
    ELSE IF HasCall("has_data", "skip", id, {"False"}) THEN "started"
    ELSE "waiting"

\* the record that results from merging a sequence of events into a record
RECURSIVE Merged(_, _)
Merged(record, evs) ==
    IF evs = <<>> THEN record
    ELSE Merged(GeneratorStateUpdate(record, Head(evs)), Tail(evs))

\* C28: the states of all artifacts and the next operation on the stores
\* are determined by the operations made so far and their answers, in the
\* same way whether the table is shown or the events are logged: the
\* records are the merge of the events sent, the table is rendered once per
\* event when it is enabled and never otherwise, and no step of the loop
\* waits for the display
C28_DisplayIndependent ==
    /\ [pc |-> pc, idx |-> idx] = PositionAfter(calls)
    /\ \A id \in Ids :
          /\ states[id].status = StatusAfter(id)
          /\ states[id] =
                Merged(GeneratorState(id, "waiting", NoMessage, NoException),
                       EventsOf(id))
    /\ IF general.visualize
       THEN display = "created" /\ shown = Len(events) + 1 /\ logged = <<>>
       ELSE display = "unset" /\ shown = 0 /\ Len(logged) = Len(events)
    /\ ~RunEnded => ENABLED Next

\* a run with the table has returned after one artifact was written and
\* the other one failed in its process stage
C28_Witness ==
    /\ pc = "done"
    /\ general.visualize
    /\ shown > 2
    /\ HasCall("write", "stage", DatasetNames[1], {"return"})
    /\ HasCall("process", "stage", DatasetNames[2], {"Exception"})
    /\ states[DatasetNames[2]].status = "failed"

\* C27: GeneratorState.update(event) is a field-wise merge: when
\* event.identifier equals the identifier of the record, each of status,
\* message and exception is overwritten iff the event supplies it and is
\* left untouched otherwise; when the identifiers differ the record is left
\* unchanged; the identifier never changes, and no other record is touched
C27_Merge ==
    pc = "update" =>
        LET event == events'[1]
            target == calls'[1].id
            before == states[target]
            after == states'[target]
        IN /\ after.identifier = before.identifier
           /\ \A id \in Ids \ {target} : states'[id] = states[id]
           /\ IF event.identifier = before.identifier
              THEN /\ after.status = IF event.status = NoStatus
                                     THEN before.status ELSE event.status
                   /\ after.message = IF event.message = NoMessage
                                      THEN before.message ELSE event.message
                   /\ after.exception = IF event.exception = NoException
                                        THEN before.exception ELSE event.exception
              ELSE after = before

\* update merges the fields of events into records
C27_FieldwiseMerge == [][C27_Merge]_vars

\* an event that supplied only a message was merged into the started record
\* of its artifact, which kept its status and its earlier exception
C27_Witness ==
    /\ pc = "updated"
    /\ events[1].identifier = calls[1].id
    /\ events[1].status = NoStatus
    /\ events[1].message # NoMessage
    /\ events[1].exception = NoException
    /\ states[calls[1].id].status = "started"
    /\ states[calls[1].id].message = events[1].message
    /\ states[calls[1].id].exception = ExceptionObj("earlier")

\* the skip check of the artifact has answered
SkipAnswered(id) == HasCall("has_data", "skip", id, {"True", "False"})

\* C29: in a second run with the same configuration on the same output
\* store, every artifact that ended stopped in the first run is skipped
\* (one 'already generated' event, no open, process or write, its output
\* still in the output store), and every artifact that ended failed in the
\* first run left no output and is attempted again from the open stage;
\* read for the artifacts whose skip check answers in the second run
C29_RerunIdempotent ==
    run = 2 =>
        \A id \in Ids :
            /\ first.status[id] = "stopped" =>
                  /\ OutputId(id) \in first.storage
                  /\ OutputId(id) \in storage
                  /\ ~StageCalled(id)
                  /\ SkipAnswered(id) =>
                        /\ Skipped(id)
                        /\ EventsOf(id) = <<AlreadyGeneratedEvent(id)>>
                        /\ states[id].status = "stopped"
                  /\ Passed(id) => Skipped(id)
            /\ first.status[id] = "failed" =>
                  /\ OutputId(id) \notin first.storage
                  /\ WriteDataId(datasets[IndexOf(id)]) \notin first.storage
                  /\ ~Skipped(id)
                  /\ SkipAnswered(id) =>
                        /\ Head(EventsOf(id)) = OpenEvent(id)
                        /\ pc = "open" \/ idx # IndexOf(id) \/
                              HasCall("open", "stage", id, CallKinds)
                  /\ Passed(id) => HasCall("open", "stage", id, CallKinds)

\* a second run has returned: the first artifact, a netcdf output that the
\* first run ended with as stopped, was skipped, and the second one, which
\* failed in the first run, went through its stages again and was written
C29_Witness ==
    /\ run = 2
    /\ pc = "done"
    /\ datasets[1].format_id = "netcdf"
    /\ first.status[DatasetNames[1]] = "stopped"
    /\ <<DatasetNames[1], "nc">> \in first.storage
    /\ Skipped(DatasetNames[1])
    /\ first.status[DatasetNames[2]] = "failed"
    /\ HasCall("write", "stage", DatasetNames[2], {"return"})
    /\ states[DatasetNames[2]].status = "stopped"

\* the configuration has been loaded
Loaded == pc # "config"

EntriesOf(op, id, k) ==
    { n \in 1..Len(olog) : olog[n].op = op /\ olog[n].id = id /\ olog[n].src = k }

\* the dataset is built from what the custom function returned for the
\* source `name`
DerivedFromCustom(trace, name) ==
    \E j \in 1..(Len(trace) - 1) : trace[j] = name /\ trace[j + 1] = "custom"

\* C24: the custom-processing function of a source is invoked exactly once
\* per opened source, with the opened dataset as its only argument, right
\* after the open call of that source returned and before any merge and
\* before the process and write stages; the dataset the open stage hands on
\* is built from what the function returned
C24_CustomProcessing ==
    \A i \in Indices : \A k \in 1..Len(SourcesOf(i).srcs) :
        LET id == DatasetNames[i]
            src == SourcesOf(i).srcs[k]
            customs == EntriesOf("custom", id, k)
            opened == { n \in EntriesOf("open_data", id, k) : olog[n].res = "return" }
        IN /\ Cardinality(customs) <= 1
           /\ ~src.custom => customs = {}
           /\ src.custom => Cardinality(customs) = Cardinality(opened)
           /\ \A n \in customs :
                 /\ olog[n].arg = <<src.name>>
                 /\ n - 1 \in opened
                 /\ \A m \in 1..Len(olog) :
                       (olog[m].id = id /\ olog[m].op \in {"merge", "return"}) => m > n
           /\ (HasCall("process", "stage", id, CallKinds)
                 \/ HasCall("write", "stage", id, CallKinds)) =>
                 \E m \in EntriesOf("return", id, 0) :
                     /\ olog[m].res = "return"
                     /\ src.custom <=> DerivedFromCustom(olog[m].arg, src.name)
                     /\ src.custom => customs # {} /\ \A n \in customs : n < m

\* a run has returned in which the first artifact, two variables of which
\* the second has a custom function, was opened, merged and written
C24_Witness ==
    /\ pc = "done"
    /\ open_config.kind = "variables"
    /\ ~open_config.srcs[1].custom
    /\ open_config.srcs[2].custom
    /\ HasCall("write", "stage", DatasetNames[1], {"return"})
    /\ \E n \in EntriesOf("custom", DatasetNames[1], 2) : olog[n].res = "return"
    /\ \E m \in EntriesOf("merge", DatasetNames[1], 0) : olog[m].res = "return"

\* the bounding box the claim gives for a point and a resolution
BboxAround(point, res) ==
    <<point[2] - 2 * res, point[1] - 2 * res, point[2] + 2 * res, point[1] + 2 * res>>

\* C25: when the open_params of a source carry point = [lat, lon] and
\* spatial_res and the schema of the store's open parameters has both
\* `bbox` and `spatial_res`, the store is opened with bbox = [lon - 2*res,
\* lat - 2*res, lon + 2*res, lat + 2*res] and without point, and the open
\* stage succeeds unless the store's open call itself fails; `point` is
\* never passed to an open call
C25_PointToBbox ==
    /\ \A n \in 1..Len(olog) :
          olog[n].op = "open_data" => olog[n].params.point = Absent
    /\ \A i \in Indices : \A k \in 1..Len(SourcesOf(i).srcs) :
          LET id == DatasetNames[i]
              src == SourcesOf(i).srcs[k]
          IN (/\ src.point # Absent
              /\ src.spatial_res # Absent
              /\ store_caps.bbox
              /\ store_caps.spatial_res
              /\ HasCall("open", "stage", id, CallKinds)) =>
                 \E n \in EntriesOf("open_data", id, k) :
                     /\ olog[n].params.point = Absent
                     /\ olog[n].params.bbox =
                           Given(BboxAround(src.point[1], src.spatial_res[1]))
                     /\ olog[n].res = "return" =>
                           \/ HasCall("open", "stage", id, {"return"})
                           \/ \E c \in EntriesOf("custom", id, k) :
                                 olog[c].res # "return"


\* --------------------------------------------------------------------- C31
\* a python list without a repeated element
NoRepeats(list) ==
    \A i, j \in 1..Len(list) : list[i] = list[j] => i = j

\* C31: every entry of the preload index is an ordered set: no source data
\* id occurs more than once in the entry of any archive id, also when two
\* artifacts or two variables reference the same source data id or when
\* the same archive id is listed in more than one PreloadSpec
C31_EntriesAreSets ==
    (pc # "config" /\ preload_datasets.given) =>
        \A archive \in DOMAIN built.preload_map :
            NoRepeats(built.preload_map[archive])

\* --------------------------------------------------------------------- C32
\* no artifact has been touched: every record is as created and nothing was
\* notified, checked, opened, processed or written
NothingGenerated ==
    /\ \A id \in DOMAIN states :
          states[id] = GeneratorState(id, "waiting", NoMessage, NoException)
    /\ events = <<>>
    /\ calls = <<>>
    /\ storage = {}

\* C32: the preload phase runs to completion before the first artifact
\* event: while _preload_datasets runs every state record is still waiting
\* with no message and no exception, and no pass of the preload loop, its
\* `already preloaded` reports included, changes a state record or the
\* output store
C32_PreloadFirst ==
    /\ [](pc = "preload" => (DOMAIN states = Ids /\ NothingGenerated))
    /\ [][pc = "preload" =>
            (states' = states /\ storage' = storage /\ events' = events)]_vars

\* the second PreloadSpec is reached after a first one that reported an
\* archive id as already preloaded and preloaded another one
C32_Witness ==
    /\ pc = "preload"
    /\ pidx = 2
    /\ ReportedIn(LogOf(1)) # <<>>
    /\ PreloadCallsIn(LogOf(1)) # <<>>

\* --------------------------------------------------------------------- C33
\* the outcomes of a call that raised
Raising == CallKinds \ {"return"}
\* the positions in the preload log of a cache query or a preload_data call
\* that raised
FailedPreloadCalls ==
    {n \in 1..Len(plog) :
        plog[n].op \in {"has_data", "preload_data"} /\ plog[n].res \in Raising}

\* the constructor was left with an exception during the preload phase and
\* nothing happened to any artifact
LeftInPreload ==
    /\ pc = "raised"
    /\ escaped # NoException
    /\ DOMAIN states = Ids
    /\ NothingGenerated
    /\ \A n \in 1..Len(plog) : plog[n].spec <= pidx

\* C33: a failure in the preload phase, preload_data raising, the cache
\* presence check raising or a PreloadSpec naming an undeclared store, is
\* not captured per artifact: it leaves the constructor, the failed call is
\* the last operation of the preload phase, later PreloadSpecs are not
\* processed and no artifact leaves waiting or is opened, processed or
\* written
C33_PreloadFailure ==
    /\ [](FailedPreloadCalls # {} =>
            (FailedPreloadCalls = {Len(plog)} /\ LeftInPreload))
    /\ [][(pc = "preload" /\ CurrentPreload.store \notin registry) =>
            (LeftInPreload' /\ escaped'.type = "Exception" /\ plog' = plog)]_vars
    /\ [][pc # "raised"]_vars

\* preload_data raised for the first of two PreloadSpecs
C33_Witness ==
    /\ pc = "raised"
    /\ Len(preload_datasets.specs) = 2
    /\ pidx = 1
    /\ FailedPreloadCalls # {}
    /\ plog[Len(plog)].op = "preload_data"

\* --------------------------------------------------------------------- C34
\* the source that a call of the open stage is about
SourceOfEntry(e) == SourcesOf(IndexOf(e.id)).srcs[e.src]

\* the lookups of the store of a source that data_stores does not declare
UndeclaredLookups ==
    {n \in 1..Len(olog) :
        /\ olog[n].op = "getattr"
        /\ SourceOfEntry(olog[n]).store \notin StoreIdentifiers}

\* C34: an artifact, or a variable of a composite artifact, that names a
\* store which data_stores does not declare fails in its open stage: the
\* lookup error is captured, the artifact ends failed with it, nothing of
\* the source is opened, the artifact is not processed or written, and the
\* loop goes on with the remaining artifacts
C34_UndeclaredStore ==
    \A n \in UndeclaredLookups :
        LET id == olog[n].id
        IN /\ olog[n].res = "Exception"
           /\ \A m \in (n + 1)..Len(olog) : olog[m].id # id
           /\ HasCall("open", "stage", id, {"Exception"})
           /\ states[id].status = "failed"
           /\ states[id].exception = ExceptionObj("AttributeError")
           /\ ~HasCall("process", "stage", id, CallKinds)
           /\ ~HasCall("write", "stage", id, CallKinds)
           /\ OutputId(id) \notin storage
           /\ idx > IndexOf(id)
           /\ escaped.val \notin {"AttributeError", "open"}

\* the second variable of the first artifact names an undeclared store, the
\* artifact failed after its first variable was opened, and the second
\* artifact was written
C34_Witness ==
    /\ pc = "done"
    /\ UndeclaredLookups # {}
    /\ \E n \in UndeclaredLookups : olog[n].src = 2 /\ olog[n].id = DatasetNames[1]
    /\ states[DatasetNames[1]].status = "failed"
    /\ HasCall("write", "stage", DatasetNames[2], {"return"})

\* --------------------------------------------------------------------- C35
\* the stores the preload phase of the current run got hold of
StoresResolved ==
    {plog[n].store : n \in {m \in 1..Len(plog) : plog[m].op = "preload_data"}}

\* the grid-mapping names the process stage of the current run resolved: the
\* stage returned a dataset for an artifact that names one
GridMappingsResolved ==
    {GridMappingOf(id) :
        id \in {i \in Ids : /\ GridMappingOf(i) # "omitted"
                            /\ HasCall("process", "stage", i, {"return"})}}

\* C35: across successive runs in one process a store name or a
\* grid-mapping name resolves during a run only if the configuration of
\* that run declares it: a name that an earlier run registered does not
\* resolve in a later run whose configuration does not declare it
C35_NoCarryOver ==
    /\ StoresResolved \subseteq StoreIdentifiers
    /\ GridMappingsResolved \subseteq (ConfiguredGridMappings \cup Ids)

\* --------------------------------------------------------------------- C36
\* the grid_mapping of the artifact is the identifier of a configured grid
\* mapping and of a declared artifact
NamesBoth(id) ==
    /\ GridMappingOf(id) \in Ids
    /\ GridMappingOf(id) \in ConfiguredGridMappings

\* C36: when the grid_mapping of an artifact is the identifier of a
\* configured grid mapping and of a declared artifact as well, the grid
\* mapping of the registry is used: the output of the named artifact is
\* never opened from the output store, and the process stage does not
\* depend on that output being there
C36_RegistryFirst ==
    /\ [](\A id \in Ids :
            NamesBoth(id) => ~HasCall("open_data", "grid_mapping", id,
                                      CallKinds \cup {"none"}))
    /\ [][(pc = "process" /\ NamesBoth(DatasetNames[idx])) =>
            /\ Len(calls') = Len(calls) + 1
            /\ calls'[Len(calls')].op = "process"
            /\ lastCall'.val # ExceptionObj("open_data")
            /\ lastCall'.val # ExceptionObj("KeyError")]_vars

\* the second artifact names the first one, which is a configured grid
\* mapping too and has no output, and was processed and written
C36_Witness ==
    /\ pc = "done"
    /\ GridMappingOf(DatasetNames[2]) = DatasetNames[1]
    /\ NamesBoth(DatasetNames[2])
    /\ OutputId(DatasetNames[1]) \notin storage
    /\ HasCall("process", "stage", DatasetNames[2], {"return"})
    /\ states[DatasetNames[2]].status = "stopped"

\* --------------------------------------------------------------------- C37
\* positions in the log of the open_data calls made on `on`, the store or
\* its cache_store, for source k of the artifact
OpensOn(on, id, k) == {n \in EntriesOf("open_data", id, k) : olog[n].on = on}

\* the open of source k got as far as opening the data
OpenReached(id, k) ==
    /\ \E n \in EntriesOf("getattr", id, k) : olog[n].res = "return"
    /\ ~ListLookupRaises(SourcesOf(IndexOf(id)).srcs[k], store_caps)

\* the open stage of the artifact failed in the open_data calls of source k:
\* they are the last calls made for the artifact
SourceOpenFailed(id, k) ==
    /\ HasCall("open", "stage", id, Raising)
    /\ \E n \in EntriesOf("open_data", id, k) :
          \A m \in (n + 1)..Len(olog) : olog[m].id # id

\* with a cache_store the cache is opened first, once, and the store at most
\* once, after it and only if the cache open raised an Exception; without a
\* cache_store the store is opened with exactly one call
CacheFirst(id, k) ==
    IF store_caps.cache_store
    THEN /\ Cardinality(OpensOn("cache_store", id, k)) = 1
         /\ Cardinality(OpensOn("store", id, k)) <= 1
         /\ \A n \in OpensOn("cache_store", id, k), m \in OpensOn("store", id, k) :
               n < m /\ olog[n].res = "Exception"
    ELSE /\ OpensOn("cache_store", id, k) = {}
         /\ Cardinality(OpensOn("store", id, k)) = 1

\* the cache open and the store open of source k both failed
BothFailed(id, k) ==
    /\ \E n \in OpensOn("cache_store", id, k) : olog[n].res # "return"
    /\ \E m \in OpensOn("store", id, k) : olog[m].res # "return"

\* the claim as stated: with a cache_store the open of a source fails only
\* if the cache open and the store open both fail
C37_Original ==
    \A i \in Indices : \A k \in 1..Len(SourcesOf(i).srcs) :
        OpenReached(DatasetNames[i], k) =>
            /\ CacheFirst(DatasetNames[i], k)
            /\ (store_caps.cache_store /\ SourceOpenFailed(DatasetNames[i], k)) =>
                  BothFailed(DatasetNames[i], k)

\* C37: when a source store has a cache_store, a source is opened from the
\* cache_store first and the store's own open_data is called only if the
\* cache open raised an Exception; the open of that source fails only if
\* both the cache open and the store open fail, or if the cache open is
\* interrupted from the keyboard; a store without cache_store is opened
\* with exactly one open_data call
C37_CacheFirst ==
    \A i \in Indices : \A k \in 1..Len(SourcesOf(i).srcs) :
        OpenReached(DatasetNames[i], k) =>
            /\ CacheFirst(DatasetNames[i], k)
            /\ (store_caps.cache_store /\ SourceOpenFailed(DatasetNames[i], k)) =>
                  \/ BothFailed(DatasetNames[i], k)
                  \/ \E n \in OpensOn("cache_store", DatasetNames[i], k) :
                        olog[n].res = "KeyboardInterrupt"

\* a run over a store with a cache_store has returned: for the first
\* artifact the cache open raised an Exception, the store open returned and
\* the artifact was written; for the second one both opens failed
C37_Witness ==
    /\ pc = "done"
    /\ store_caps.cache_store
    /\ \E n \in OpensOn("cache_store", DatasetNames[1], 1) : olog[n].res = "Exception"
    /\ \E m \in OpensOn("store", DatasetNames[1], 1) : olog[m].res = "return"
    /\ HasCall("write", "stage", DatasetNames[1], {"return"})
    /\ BothFailed(DatasetNames[2], 1)
    /\ SourceOpenFailed(DatasetNames[2], 1)

\* --------------------------------------------------------------------- C38
\* positions in the log of the open stage of the calls made for source k of
\* the artifact
CallsFor(id, k) == {n \in 1..Len(olog) : olog[n].id = id /\ olog[n].src = k}

\* the last call made for source k of the artifact raised
VariableFailed(id, k) ==
    /\ CallsFor(id, k) # {}
    /\ \E n \in CallsFor(id, k) :
          /\ \A m \in CallsFor(id, k) : m <= n
          /\ olog[n].res # "return"

\* what the wrapper of the open stage hands to the loop for a call that
\* raised
CapturedFrom(e) ==
    SafeExecute([kind |-> e.res,
                 val |-> IF e.op = "getattr" THEN ExceptionObj("AttributeError")
                         ELSE RaisedBy(e.res, IF e.op = "custom" THEN "custom"
                                              ELSE "open_data")]).value

\* C38: the variables of a composite artifact are opened in their listed
\* order, and the first variable whose open or custom processing fails ends
\* the open stage: no later variable is opened, nothing is merged, the
\* artifact ends failed with what was captured of that variable's error, and
\* it is neither processed nor written
C38_CompositeAbort ==
    \A i \in Indices :
        LET id == DatasetNames[i]
            n_vars == Len(SourcesOf(i).srcs)
        IN SourcesOf(i).kind = "variables" =>
             /\ \A n, m \in 1..Len(olog) :
                   (/\ olog[n].id = id /\ olog[m].id = id
                    /\ olog[n].src > 0 /\ olog[m].src > 0
                    /\ n < m) => olog[n].src <= olog[m].src
             /\ \A k \in 1..n_vars :
                   VariableFailed(id, k) =>
                      /\ \A j \in 1..(k - 1) :
                            CallsFor(id, j) # {} /\ ~VariableFailed(id, j)
                      /\ \A j \in (k + 1)..n_vars : CallsFor(id, j) = {}
                      /\ EntriesOf("merge", id, 0) = {}
                      /\ HasCall("open", "stage", id, Raising)
                      /\ states[id].status = "failed"
                      /\ \E n \in CallsFor(id, k) :
                            /\ \A m \in CallsFor(id, k) : m <= n
                            /\ states[id].exception = CapturedFrom(olog[n])
                      /\ ~HasCall("process", "stage", id, CallKinds)
                      /\ ~HasCall("write", "stage", id, CallKinds)
                      /\ OutputId(id) \notin storage

\* a run has returned in which the first variable of a composite artifact
\* failed in its custom processing after it was opened, and the artifact
\* declared after it was written
C38_Witness ==
    /\ pc = "done"
    /\ open_config.kind = "variables"
    /\ \E n \in EntriesOf("open_data", DatasetNames[1], 1) : olog[n].res = "return"
    /\ \E n \in EntriesOf("custom", DatasetNames[1], 1) : olog[n].res = "Exception"
    /\ VariableFailed(DatasetNames[1], 1)
    /\ states[DatasetNames[1]].status = "failed"
    /\ HasCall("write", "stage", DatasetNames[2], {"return"})

\* --------------------------------------------------------------------- C39
\* C39: in every state of a run the record of an artifact holds an
\* exception iff its status is failed: a waiting, started or stopped record
\* holds none, and every failed record holds the captured error, so the
\* Exception cell of its row is not a dash
C39_ExceptionIffFailed ==
    \A id \in DOMAIN states :
        /\ states[id].exception # NoException <=> states[id].status = "failed"
        /\ states[id].status = "failed" => ExceptionCell(states[id]) # Str("-")
        /\ states[id].status # "failed" => ExceptionCell(states[id]) = Str("-")

\* a run has returned with one artifact failed with an exception and the
\* other one stopped without
C39_Witness ==
    /\ pc = "done"
    /\ states[DatasetNames[1]].status = "failed"
    /\ states[DatasetNames[1]].exception = ExceptionObj("process")
    /\ states[DatasetNames[2]].status = "stopped"
    /\ states[DatasetNames[2]].exception = NoException

\* --------------------------------------------------------------------- C40
\* '<identifier>.<ext>' for the artifact the loop is at, with ext = 'nc' for
\* netcdf and 'zarr' for zarr or no format_id
ExpectedId ==
    <<DatasetNames[idx],
      IF datasets[idx].format_id = "netcdf" THEN "nc" ELSE "zarr">>

\* the skip check asks the output store for the expected id
SkipChecksExpected ==
    pc = "visit" =>
        /\ pc' = "open" => ExpectedId \notin storage
        /\ idx' = idx + 1 => ExpectedId \in storage

\* _write_dataset writes the expected id and nothing else
WriteWritesExpected ==
    pc = "write" =>
        /\ storage' \in {storage, storage \cup {ExpectedId}}
        /\ lastCall'.kind = "return" => ExpectedId \in storage'

\* the cleanup after a failed write deletes the expected id and nothing else
CleanupDeletesExpected ==
    pc = "cleanup" =>
        /\ storage' \in {storage, storage \ {ExpectedId}}
        /\ pc' # "raised" => ExpectedId \notin storage'
        /\ (Len(calls') = Len(calls) + 2) => ExpectedId \in storage

\* C40: for every artifact and every allowed format_id, zarr, netcdf or
\* none, the id the skip check asks for, the id _write_dataset writes and
\* the id the cleanup after a failed write deletes are the same
\* '<identifier>.<ext>', with ext = 'nc' for netcdf and 'zarr' otherwise,
\* all three in the one output store
C40_OneOutputId ==
    [][SkipChecksExpected /\ WriteWritesExpected /\ CleanupDeletesExpected]_vars

\* a run has returned in which a netcdf artifact was written in part and
\* cleaned up, and an artifact without format_id was written
C40_Witness ==
    /\ pc = "done"
    /\ datasets[1].format_id = "netcdf"
    /\ HasCall("delete_data", "cleanup", DatasetNames[1], {"return"})
    /\ <<DatasetNames[1], "nc">> \notin storage
    /\ datasets[2].format_id = "omitted"
    /\ HasCall("write", "stage", DatasetNames[2], {"return"})
    /\ <<DatasetNames[2], "zarr">> \in storage

=============================================================================
